---------------------------- MODULE Spec2Model ----------------------------
(***************************************************************************)
(* LearningSuite MCP server: the tool catalog, the dispatcher             *)
(* (handleToolCall and the CallTool / ListTools request handlers of       *)
(* src/src/index.ts) and the transport client (LearningSuiteClient of     *)
(* src/src/api-client.ts).                                                *)
(*                                                                         *)
(* JavaScript values are tagged records [t, v]; a JavaScript string is a  *)
(* sequence of one-character strings, so that the conversions of the code *)
(* (String(), template literals, URLSearchParams, JSON.stringify,         *)
(* JSON.parse) are computed character by character.  Texts that the code  *)
(* only concatenates (URLs, messages, envelope texts) are TLA+ strings.   *)
(***************************************************************************)
EXTENDS Integers, Sequences, FiniteSets, TLC

VARIABLES
    env,        \* process.env.LEARNINGSUITE_API_KEY, a JavaScript value
    phase,      \* "boot" | "serving" | "exited"
    client,     \* the LearningSuiteClient instance: [apiKey |-> ...]
    tools,      \* the catalog array of Tool Descriptors
    pc,         \* per call slot: "idle" | "fetching" | "reading" | "done" | "rejected"
    call,       \* per call slot: the request params [name, arguments]
    sent,       \* per call slot: the HTTP requests handed to fetch
    response,   \* per call slot: the HTTP response: status, text, whether text() resolved
    result,     \* per call slot: what handleToolCall settled with
    replies,    \* per call slot: the Result Envelopes returned to the host
    listed,     \* the reply of the ListTools request just served, else <<>>
    failed      \* history: some call has ended with a thrown error

vars == <<env, phase, client, tools, pc, call, sent, response, result, replies, listed,
          failed>>

----------------------------------------------------------------------------
(* JavaScript values *)

Undefined == [t |-> "undefined", v |-> 0]

Null == [t |-> "null", v |-> 0]

Bool(b) == [t |-> "boolean", v |-> b]

Num(n) == [t |-> "number", v |-> n]

Str(cs) == [t |-> "string", v |-> cs]

Arr(es) == [t |-> "array", v |-> es]

\* An object is the sequence of its own <<key, value>> properties in
\* insertion order; keys are TLA+ strings.
Obj(ps) == [t |-> "object", v |-> ps]

RECURSIVE Join(_)
\* The text of a sequence of characters.
Join(cs) == IF cs = <<>> THEN "" ELSE Head(cs) \o Join(Tail(cs))

RECURSIVE Flatten(_)
Flatten(ss) == IF ss = <<>> THEN <<>> ELSE Head(ss) \o Flatten(Tail(ss))

\* ToBoolean: what `!x`, `x && ...` and `if (x)` test.
Truthy(x) ==
    CASE x.t = "undefined" -> FALSE
      [] x.t = "null" -> FALSE
      [] x.t = "boolean" -> x.v
      [] x.t = "number" -> x.v # 0
      [] x.t = "string" -> x.v # <<>>
      [] OTHER -> TRUE

DigitChar(d) ==
    CASE d = 0 -> "0" [] d = 1 -> "1" [] d = 2 -> "2" [] d = 3 -> "3"
      [] d = 4 -> "4" [] d = 5 -> "5" [] d = 6 -> "6" [] d = 7 -> "7"
      [] d = 8 -> "8" [] d = 9 -> "9"

RECURSIVE NumChars(_)
\* Number::toString of a non-negative integer.
NumChars(n) ==
    IF n < 10 THEN <<DigitChar(n)>>
    ELSE NumChars(n \div 10) \o <<DigitChar(n % 10)>>

RECURSIVE ToStringChars(_)
\* ToString: what String(x) and a template literal ${x} produce.
ToStringChars(x) ==
    CASE x.t = "undefined" -> <<"u","n","d","e","f","i","n","e","d">>
      [] x.t = "null" -> <<"n","u","l","l">>
      [] x.t = "boolean" ->
            IF x.v THEN <<"t","r","u","e">> ELSE <<"f","a","l","s","e">>
      [] x.t = "number" -> NumChars(x.v)
      [] x.t = "string" -> x.v
      [] x.t = "array" ->
            \* Array.prototype.join(","): null and undefined elements are empty
            Flatten([i \in 1..Len(x.v) |->
                (IF i = 1 THEN <<>> ELSE <<",">>) \o
                (IF x.v[i].t \in {"undefined", "null"} THEN <<>>
                 ELSE ToStringChars(x.v[i]))])
      [] x.t = "object" ->
            <<"[","o","b","j","e","c","t"," ","O","b","j","e","c","t","]">>

\* The text a template literal interpolates for x.
Tpl(x) == Join(ToStringChars(x))

HasKey(o, k) == \E i \in 1..Len(o.v) : o.v[i][1] = k

\* o.k for an object o: the property's value, undefined when absent.
Get(o, k) ==
    IF o.t = "object" /\ HasKey(o, k)
    THEN (o.v[CHOOSE i \in 1..Len(o.v) : o.v[i][1] = k])[2]
    ELSE Undefined

\* The whole object taken for the rest.
Rest_Whole(o, k) == o

\* The rest of an object pattern: { k, ...rest } = o.
Rest(o, k) == Obj(SelectSeq(o.v, LAMBDA p : p[1] # k))

Keys(o) == IF o.t = "object" THEN {o.v[i][1] : i \in 1..Len(o.v)} ELSE {}

----------------------------------------------------------------------------
(* JSON.stringify *)

\* QuoteJSONString: the characters of a JSON string literal.
QuoteJSONString(cs) ==
    <<"\"">> \o
    Flatten([i \in 1..Len(cs) |->
        CASE cs[i] = "\"" -> <<"\\", "\"">>
          [] cs[i] = "\\" -> <<"\\", "\\">>
          [] cs[i] = "\n" -> <<"\\", "n">>
          [] OTHER -> <<cs[i]>>]) \o
    <<"\"">>

\* The own properties JSON.stringify serializes: those whose value is not
\* undefined.
Serializable(ps) == SelectSeq(ps, LAMBDA p : p[2].t # "undefined")

RECURSIVE JSONStringifyChars(_, _, _)
\* SerializeJSONProperty for value x, gap `gap` (the indentation unit, empty
\* for the compact form) and current indentation `indent`.
JSONStringifyChars(x, gap, indent) ==
    LET stepback == indent
        inner == indent \o gap
        sep == IF gap = <<>> THEN <<",">> ELSE <<",", "\n">> \o inner
        open == IF gap = <<>> THEN <<>> ELSE <<"\n">> \o inner
        close == IF gap = <<>> THEN <<>> ELSE <<"\n">> \o stepback
        colon == IF gap = <<>> THEN <<":">> ELSE <<":", " ">>
    IN  CASE x.t = "null" -> <<"n","u","l","l">>
          [] x.t = "undefined" -> <<"n","u","l","l">>   \* only as an array element
          [] x.t = "boolean" ->
                IF x.v THEN <<"t","r","u","e">> ELSE <<"f","a","l","s","e">>
          [] x.t = "number" -> NumChars(x.v)
          [] x.t = "string" -> QuoteJSONString(x.v)
          [] x.t = "array" ->
                IF x.v = <<>> THEN <<"[", "]">>
                ELSE <<"[">> \o open \o
                     Flatten([i \in 1..Len(x.v) |->
                        (IF i = 1 THEN <<>> ELSE sep) \o
                        JSONStringifyChars(x.v[i], gap, inner)]) \o
                     close \o <<"]">>
          [] x.t = "object" ->
                LET ps == Serializable(x.v)
                IN  IF ps = <<>> THEN <<"{", "}">>
                    ELSE <<"{">> \o open \o
                         Flatten([i \in 1..Len(ps) |->
                            (IF i = 1 THEN <<>> ELSE sep) \o
                            <<"\"", ps[i][1], "\"">> \o colon \o
                            JSONStringifyChars(ps[i][2], gap, inner)]) \o
                         close \o <<"}">>

\* JSON.stringify(x): the compact text (api-client.ts line 48).
JSONStringify(x) == Join(JSONStringifyChars(x, <<>>, <<>>))

\* JSON.stringify(x, null, 2): the text indented by two spaces
\* (index.ts line 1256).
JSONStringifyPretty(x) == Join(JSONStringifyChars(x, <<" ", " ">>, <<>>))

----------------------------------------------------------------------------
(* JSON.parse *)

WhiteSpace == {" ", "\n", "\t", "\r"}

Digits == {"0", "1", "2", "3", "4", "5", "6", "7", "8", "9"}

DigitValue(c) ==
    CASE c = "0" -> 0 [] c = "1" -> 1 [] c = "2" -> 2 [] c = "3" -> 3
      [] c = "4" -> 4 [] c = "5" -> 5 [] c = "6" -> 6 [] c = "7" -> 7
      [] c = "8" -> 8 [] c = "9" -> 9

RECURSIVE SkipWs(_, _)
SkipWs(s, i) ==
    IF i <= Len(s) /\ s[i] \in WhiteSpace THEN SkipWs(s, i + 1) ELSE i

\* A parse step's outcome: the value and the position after it, or the
\* position of the offending token.
Parsed(x, next) == [ok |-> TRUE, v |-> x, next |-> next]

Unexpected(at) == [ok |-> FALSE, v |-> Undefined, next |-> at]

\* The literal `word` at position i of s.
ParseLiteral(s, i, word, x) ==
    LET n == Len(word)
        bad == {k \in 1..n : i + k - 1 > Len(s) \/ s[i + k - 1] # word[k]}
    IN  IF bad = {} THEN Parsed(x, i + n)
        ELSE Unexpected(i + (CHOOSE k \in bad : \A m \in bad : k <= m) - 1)

RECURSIVE ParseDigits(_, _, _)
ParseDigits(s, i, acc) ==
    IF i <= Len(s) /\ s[i] \in Digits
    THEN ParseDigits(s, i + 1, 10 * acc + DigitValue(s[i]))
    ELSE Parsed(Num(acc), i)

\* A non-negative integer; a leading 0 ends the number.
ParseNumber(s, i) ==
    IF s[i] = "0" THEN Parsed(Num(0), i + 1) ELSE ParseDigits(s, i, 0)

RECURSIVE ParseStringBody(_, _, _)
\* The characters of a string literal from position i (after the opening
\* quote) to its closing quote.
ParseStringBody(s, i, acc) ==
    IF i > Len(s) THEN Unexpected(i)
    ELSE IF s[i] = "\"" THEN Parsed(Str(acc), i + 1)
    ELSE IF s[i] = "\n" THEN Unexpected(i)
    ELSE IF s[i] = "\\" THEN
        IF i + 1 > Len(s) THEN Unexpected(i + 1)
        ELSE IF s[i + 1] \in {"\"", "\\"}
             THEN ParseStringBody(s, i + 2, Append(acc, s[i + 1]))
        ELSE IF s[i + 1] = "n" THEN ParseStringBody(s, i + 2, Append(acc, "\n"))
        ELSE Unexpected(i + 1)
    ELSE ParseStringBody(s, i + 1, Append(acc, s[i]))

\* Setting property k of the property list ps (a repeated key keeps its place
\* and takes the later value).
SetProp(ps, k, x) ==
    IF \E j \in 1..Len(ps) : ps[j][1] = k
    THEN [j \in 1..Len(ps) |-> IF ps[j][1] = k THEN <<k, x>> ELSE ps[j]]
    ELSE Append(ps, <<k, x>>)

RECURSIVE ParseValue(_, _)
RECURSIVE ParseElements(_, _, _)
RECURSIVE ParseMembers(_, _, _)

\* The JSON value that starts at position i of s.
ParseValue(s, i) ==
    IF i > Len(s) THEN Unexpected(i)
    ELSE CASE s[i] = "{" ->
                LET j == SkipWs(s, i + 1)
                IN  IF j <= Len(s) /\ s[j] = "}" THEN Parsed(Obj(<<>>), j + 1)
                    ELSE ParseMembers(s, j, <<>>)
           [] s[i] = "[" ->
                LET j == SkipWs(s, i + 1)
                IN  IF j <= Len(s) /\ s[j] = "]" THEN Parsed(Arr(<<>>), j + 1)
                    ELSE ParseElements(s, j, <<>>)
           [] s[i] = "\"" -> ParseStringBody(s, i + 1, <<>>)
           [] s[i] = "t" -> ParseLiteral(s, i, <<"t","r","u","e">>, Bool(TRUE))
           [] s[i] = "f" -> ParseLiteral(s, i, <<"f","a","l","s","e">>, Bool(FALSE))
           [] s[i] = "n" -> ParseLiteral(s, i, <<"n","u","l","l">>, Null)
           [] s[i] \in Digits -> ParseNumber(s, i)
           [] OTHER -> Unexpected(i)

\* The elements of an array from position i (at an element) on.
ParseElements(s, i, acc) ==
    LET e == ParseValue(s, i)
    IN  IF ~e.ok THEN e
        ELSE LET j == SkipWs(s, e.next)
             IN  IF j > Len(s) THEN Unexpected(j)
                 ELSE IF s[j] = "]" THEN Parsed(Arr(Append(acc, e.v)), j + 1)
                 ELSE IF s[j] = ","
                      THEN ParseElements(s, SkipWs(s, j + 1), Append(acc, e.v))
                 ELSE Unexpected(j)

\* The members of an object from position i (at a key) on.
ParseMembers(s, i, acc) ==
    IF i > Len(s) \/ s[i] # "\"" THEN Unexpected(i)
    ELSE LET k == ParseStringBody(s, i + 1, <<>>)
         IN  IF ~k.ok THEN k
             ELSE LET c == SkipWs(s, k.next)
                  IN  IF c > Len(s) \/ s[c] # ":" THEN Unexpected(c)
                      ELSE LET e == ParseValue(s, SkipWs(s, c + 1))
                           IN  IF ~e.ok THEN e
                               ELSE LET j == SkipWs(s, e.next)
                                        ps == SetProp(acc, Join(k.v.v), e.v)
                                    IN  IF j > Len(s) THEN Unexpected(j)
                                        ELSE IF s[j] = "}" THEN Parsed(Obj(ps), j + 1)
                                        ELSE IF s[j] = ","
                                             THEN ParseMembers(s, SkipWs(s, j + 1), ps)
                                        ELSE Unexpected(j)

\* The message of the SyntaxError JSON.parse throws (V8's wording).
SyntaxErrorMessage(s, at) ==
    IF at > Len(s) THEN "Unexpected end of JSON input"
    ELSE "Unexpected token " \o s[at] \o " in JSON at position " \o ToString(at - 1)

\* JSON.parse(text): [ok |-> TRUE, v |-> value], or ok FALSE and the thrown
\* SyntaxError.
JSONParse(s) ==
    LET r == ParseValue(s, SkipWs(s, 1))
        j == SkipWs(s, r.next)
    IN  IF ~r.ok
        THEN [ok |-> FALSE, v |-> Undefined,
              error |-> [name |-> "SyntaxError", message |-> SyntaxErrorMessage(s, r.next)]]
        ELSE IF j <= Len(s)
        THEN [ok |-> FALSE, v |-> Undefined,
              error |-> [name |-> "SyntaxError", message |-> SyntaxErrorMessage(s, j)]]
        ELSE [ok |-> TRUE, v |-> r.v,
              error |-> [name |-> "", message |-> ""]]

----------------------------------------------------------------------------
(* LearningSuiteClient (src/src/api-client.ts) *)

BASE_URL == "https://api.learningsuite.io/api/v1"

\* The characters the application/x-www-form-urlencoded serializer of
\* URLSearchParams leaves as they are.
FormSafe ==
    {"a","b","c","d","e","f","g","h","i","j","k","l","m","n","o","p","q","r",
     "s","t","u","v","w","x","y","z","A","B","C","D","E","F","G","H","I","J",
     "K","L","M","N","O","P","Q","R","S","T","U","V","W","X","Y","Z",
     "0","1","2","3","4","5","6","7","8","9","*","-",".","_"}

\* The serializer's text for the other characters the inputs use.
PercentEncoded(c) ==
    CASE c = " " -> "+"
      [] c = "/" -> "%2F"
      [] c = "?" -> "%3F"
      [] c = "#" -> "%23"
      [] c = "," -> "%2C"
      [] c = "@" -> "%40"
      [] c = ":" -> "%3A"
      [] c = "[" -> "%5B"
      [] c = "]" -> "%5D"

FormEncode(cs) ==
    Join([i \in 1..Len(cs) |->
            IF cs[i] \in FormSafe THEN cs[i] ELSE PercentEncoded(cs[i])])

\* The list with every entry appended, undefined values too.
AppendedParams_KeepUndefined(queryParams) ==
    LET entries == IF queryParams.t = "object" THEN queryParams.v ELSE <<>>
    IN  [i \in 1..Len(entries) |-> <<entries[i][1], ToStringChars(entries[i][2])>>]

\* The list with only the entries whose value is truthy.
AppendedParams_SkipFalsy(queryParams) ==
    LET entries == IF queryParams.t = "object" THEN queryParams.v ELSE <<>>
        kept == SelectSeq(entries, LAMBDA e : Truthy(e[2]))
    IN  [i \in 1..Len(kept) |-> <<kept[i][1], ToStringChars(kept[i][2])>>]

\* api-client.ts lines 25-30: the list of a new URLSearchParams after
\* params.append(key, String(value)) for every entry whose value is not
\* undefined.
AppendedParams(queryParams) ==
    LET entries == IF queryParams.t = "object" THEN queryParams.v ELSE <<>>
        defined == SelectSeq(entries, LAMBDA e : e[2].t # "undefined")
    IN  [i \in 1..Len(defined) |-> <<defined[i][1], ToStringChars(defined[i][2])>>]

RECURSIVE ParamsToString(_)
\* URLSearchParams.prototype.toString.  The keys of the model are identifiers
\* (letters, digits and _), which the serializer leaves as they are.
ParamsToString(ps) ==
    IF ps = <<>> THEN ""
    ELSE Head(ps)[1] \o "=" \o FormEncode(Head(ps)[2]) \o
         (IF Tail(ps) = <<>> THEN "" ELSE "&" \o ParamsToString(Tail(ps)))

\* request with the key header left out of a GET.
request_NoKeyOnGet(method, path, body, queryParams) ==
    LET params == IF Truthy(queryParams) THEN AppendedParams(queryParams) ELSE <<>>
        queryString == ParamsToString(params)
        url == BASE_URL \o Join(path) \o
               (IF queryString # "" THEN "?" \o queryString ELSE "")
        headers == IF method = "GET"
                   THEN << <<"Content-Type", "application/json">> >>
                   ELSE << <<"Content-Type", "application/json">>,
                           <<"X-API-Key", client.apiKey>> >>
    IN  [url |-> url, path |-> path, params |-> params,
         options |->
            IF Truthy(body) /\ method \in {"POST", "PUT", "DELETE"}
            THEN [method |-> method, headers |-> headers,
                  body |-> Str(JSONStringifyChars(body, <<>>, <<>>))]
            ELSE [method |-> method, headers |-> headers]]

\* request, lines 22-51: the call fetch(url, options) it makes.  path is the
\* sequence of the template's pieces; params is the URLSearchParams list.
request(method, path, body, queryParams) ==
    LET params == IF Truthy(queryParams) THEN AppendedParams(queryParams) ELSE <<>>
        queryString == ParamsToString(params)
        url == BASE_URL \o Join(path) \o
               (IF queryString # "" THEN "?" \o queryString ELSE "")
        headers == << <<"Content-Type", "application/json">>,
                      <<"X-API-Key", client.apiKey>> >>
    IN  [url |-> url, path |-> path, params |-> params,
         options |->
            IF Truthy(body) /\ method \in {"POST", "PUT", "DELETE"}
            THEN [method |-> method, headers |-> headers,
                  body |-> Str(JSONStringifyChars(body, <<>>, <<>>))]
            ELSE [method |-> method, headers |-> headers]]

\* What an awaited call settles with: a returned value or a thrown error.
Return(x) == [kind |-> "return", value |-> x, error |-> [name |-> "", message |-> ""]]

Throw(e) == [kind |-> "throw", value |-> Undefined, error |-> e]

Error(message) == [name |-> "Error", message |-> message]

TypeError(message) == [name |-> "TypeError", message |-> message]

\* Only a server error counts as a failure.
Ok_Below500(status) == status >= 200 /\ status <= 499

\* response.ok
Ok(status) == status >= 200 /\ status <= 299

\* request without the test for an empty text: every text is parsed.
requestOnResponse_AlwaysParse(status, text) ==
    IF ~Ok(status)
    THEN Throw(Error("API Error " \o Join(NumChars(status)) \o ": " \o Join(text)))
    ELSE LET parsed == JSONParse(text)
         IN  IF parsed.ok THEN Return(parsed.v) ELSE Throw(parsed.error)

\* request with the parse failure swallowed into an empty object.
requestOnResponse_SwallowParse(status, text) ==
    IF ~Ok(status)
    THEN Throw(Error("API Error " \o Join(NumChars(status)) \o ": " \o Join(text)))
    ELSE IF ~Truthy(Str(text)) THEN Return(Obj(<<>>))
    ELSE LET parsed == JSONParse(text)
         IN  IF parsed.ok THEN Return(parsed.v) ELSE Return(Obj(<<>>))

\* request, lines 53-63: what it settles with for a response of this status
\* whose text() is `text`.
requestOnResponse(status, text) ==
    IF ~Ok(status)
    THEN Throw(Error("API Error " \o Join(NumChars(status)) \o ": " \o Join(text)))
    ELSE IF ~Truthy(Str(text)) THEN Return(Obj(<<>>))
    ELSE LET parsed == JSONParse(text)
         IN  IF parsed.ok THEN Return(parsed.v) ELSE Throw(parsed.error)

checkAuth ==
    request("GET", <<"/auth">>, Undefined, Undefined)

\* getMembers written as a copy of createMember.
getMembers_AsCreate(params) ==
    request("POST", <<"/members">>, params, Undefined)

getMembers(params) ==
    request("GET", <<"/members">>, Undefined, params)

createMember(data) ==
    request("POST", <<"/members">>, data, Undefined)

getMemberByEmail(email, includeGroups) ==
    request("GET",
            <<"/members/by-email">>,
            Undefined,
            Obj(<< <<"email", email>>, <<"includeGroups", includeGroups>> >>))

\* getMember with the member id sent in the query string as well.
getMember_QueryId(memberId, includeGroups) ==
    request("GET",
            <<"/members/">> \o ToStringChars(memberId),
            Undefined,
            Obj(<< <<"memberId", memberId>>, <<"includeGroups", includeGroups>> >>))

getMember(memberId, includeGroups) ==
    request("GET",
            <<"/members/">> \o ToStringChars(memberId),
            Undefined,
            Obj(<< <<"includeGroups", includeGroups>> >>))

updateMember(memberId, data) ==
    request("PUT", <<"/members/">> \o ToStringChars(memberId), data, Undefined)

deleteMember(memberId) ==
    request("DELETE", <<"/members/">> \o ToStringChars(memberId), Undefined, Undefined)

getMemberCourses(memberId, params) ==
    request("GET",
            <<"/members/">> \o ToStringChars(memberId) \o <<"/courses">>,
            Undefined,
            params)

addMemberToCourses(memberId, data) ==
    request("PUT",
            <<"/members/">> \o ToStringChars(memberId) \o <<"/courses">>,
            data,
            Undefined)

\* removeMemberFromCourses with the member id in the body as well.
removeMemberFromCourses_WithId(memberId, courseIds) ==
    request("DELETE",
            <<"/members/">> \o ToStringChars(memberId) \o <<"/courses">>,
            Obj(<< <<"memberId", memberId>>, <<"courseIds", courseIds>> >>),
            Undefined)

removeMemberFromCourses(memberId, courseIds) ==
    request("DELETE",
            <<"/members/">> \o ToStringChars(memberId) \o <<"/courses">>,
            Obj(<< <<"courseIds", courseIds>> >>),
            Undefined)

getMemberCourseInfo(memberId, courseId, dateForAccessCheck) ==
    request("GET",
            <<"/members/">> \o ToStringChars(memberId) \o <<"/course-info/">> \o ToStringChars(courseId),
            Undefined,
            Obj(<< <<"dateForAccessCheck", dateForAccessCheck>> >>))

getMemberBundles(memberId) ==
    request("GET",
            <<"/members/">> \o ToStringChars(memberId) \o <<"/bundles">>,
            Undefined,
            Undefined)

addMemberToBundles(memberId, data) ==
    request("PUT",
            <<"/members/">> \o ToStringChars(memberId) \o <<"/bundles">>,
            data,
            Undefined)

removeMemberFromBundles(memberId, bundleIds) ==
    request("DELETE",
            <<"/members/">> \o ToStringChars(memberId) \o <<"/bundles">>,
            Obj(<< <<"bundleIds", bundleIds>> >>),
            Undefined)

getTeamMembers(params) ==
    request("GET", <<"/team-members">>, Undefined, params)

getTeamMemberByEmail(email) ==
    request("GET", <<"/team-members/by-email">>, Undefined, Obj(<< <<"email", email>> >>))

getTeamMember(userId) ==
    request("GET", <<"/team-members/">> \o ToStringChars(userId), Undefined, Undefined)

getGroups(params) ==
    request("GET", <<"/groups">>, Undefined, params)

createGroup(data) ==
    request("POST", <<"/groups">>, data, Undefined)

findGroupsByName(name) ==
    request("GET", <<"/groups/find-by-name">>, Undefined, Obj(<< <<"name", name>> >>))

deleteGroup(groupId) ==
    request("DELETE", <<"/group/">> \o ToStringChars(groupId), Undefined, Undefined)

getGroupCourses(groupId) ==
    request("GET",
            <<"/group/">> \o ToStringChars(groupId) \o <<"/courses">>,
            Undefined,
            Undefined)

addCoursesToGroup(groupId, courseIds) ==
    request("PUT",
            <<"/group/">> \o ToStringChars(groupId) \o <<"/courses">>,
            Obj(<< <<"courseIds", courseIds>> >>),
            Undefined)

removeCoursesFromGroup(groupId, courseIds) ==
    request("DELETE",
            <<"/group/">> \o ToStringChars(groupId) \o <<"/courses">>,
            Obj(<< <<"courseIds", courseIds>> >>),
            Undefined)

addBundlesToGroup(groupId, bundleIds) ==
    request("PUT",
            <<"/group/">> \o ToStringChars(groupId) \o <<"/bundles">>,
            Obj(<< <<"bundleIds", bundleIds>> >>),
            Undefined)

addMembersToGroups(data) ==
    request("PUT", <<"/add-members-to-groups">>, data, Undefined)

addMembersToGroupsSummary(data) ==
    request("PUT", <<"/add-members-to-groups-summary">>, data, Undefined)

removeMembersFromGroups(data) ==
    request("DELETE", <<"/remove-members-from-groups">>, data, Undefined)

getPublishedCourses ==
    request("GET", <<"/courses/published">>, Undefined, Undefined)

getCourseModules(courseId) ==
    request("GET",
            <<"/courses/">> \o ToStringChars(courseId) \o <<"/modules">>,
            Undefined,
            Undefined)

getCourseModulesForMember(courseId, memberId) ==
    request("GET",
            <<"/courses/">> \o ToStringChars(courseId) \o <<"/modules/">> \o ToStringChars(memberId),
            Undefined,
            Undefined)

getCourseMembers(courseId, params) ==
    request("GET",
            <<"/courses/">> \o ToStringChars(courseId) \o <<"/members">>,
            Undefined,
            params)

getCourseAccessRequests(courseId, params) ==
    request("GET",
            <<"/courses/">> \o ToStringChars(courseId) \o <<"/access-requests">>,
            Undefined,
            params)

getCourseSubmissions(courseId, params) ==
    request("GET",
            <<"/courses/">> \o ToStringChars(courseId) \o <<"/submissions">>,
            Undefined,
            params)

createLesson(courseId, sectionId, data) ==
    request("POST",
            <<"/courses/">> \o ToStringChars(courseId) \o <<"/create-lesson/">> \o ToStringChars(sectionId),
            data,
            Undefined)

getModuleSections(moduleId) ==
    request("GET",
            <<"/modules/">> \o ToStringChars(moduleId) \o <<"/sections">>,
            Undefined,
            Undefined)

getModuleLessons(moduleId) ==
    request("GET",
            <<"/modules/">> \o ToStringChars(moduleId) \o <<"/lessons">>,
            Undefined,
            Undefined)

createModuleUnlockOverride(data) ==
    request("POST", <<"/create-module-unlock-override">>, data, Undefined)

getBundles ==
    request("GET", <<"/bundles">>, Undefined, Undefined)

getBundleMembers(bundleId, params) ==
    request("GET",
            <<"/bundle/">> \o ToStringChars(bundleId) \o <<"/members">>,
            Undefined,
            params)

getHubs ==
    request("GET", <<"/hubs">>, Undefined, Undefined)

createHub(data) ==
    request("POST", <<"/hub">>, data, Undefined)

getHubTemplates ==
    request("GET", <<"/hub-templates">>, Undefined, Undefined)

getHubTemplateVariables(hubTemplateId) ==
    request("GET",
            <<"/hub-template/">> \o ToStringChars(hubTemplateId) \o <<"/variables">>,
            Undefined,
            Undefined)

addHubAccesses(hubId, data) ==
    request("PUT", <<"/hub/">> \o ToStringChars(hubId) \o <<"/access">>, data, Undefined)

removeHubAccesses(hubId, data) ==
    request("DELETE",
            <<"/hub/">> \o ToStringChars(hubId) \o <<"/access">>,
            data,
            Undefined)

getCommunityAreas ==
    request("GET", <<"/community/areas">>, Undefined, Undefined)

getCommunityForums(params) ==
    request("GET", <<"/community/forums">>, Undefined, params)

getCommunityPosts(params) ==
    request("GET", <<"/community/posts">>, Undefined, params)

commentOnPost(postId, data) ==
    request("POST",
            <<"/community/posts/">> \o ToStringChars(postId) \o <<"/comments">>,
            data,
            Undefined)

getCommunityBadges ==
    request("GET", <<"/community/badges">>, Undefined, Undefined)

assignBadgesToUser(data) ==
    request("PUT", <<"/community/badges/user">>, data, Undefined)

removeBadgesFromUser(data) ==
    request("DELETE", <<"/community/badges/user">>, data, Undefined)

getPopups(params) ==
    request("GET", <<"/popups">>, Undefined, params)

getPopup(popupId) ==
    request("GET", <<"/popups/">> \o ToStringChars(popupId), Undefined, Undefined)

triggerPopup(popupId, memberId) ==
    request("POST",
            <<"/popups/">> \o ToStringChars(popupId) \o <<"/trigger/">> \o ToStringChars(memberId),
            Undefined,
            Undefined)

removePopupTrigger(popupId, memberId) ==
    request("DELETE",
            <<"/popups/">> \o ToStringChars(popupId) \o <<"/trigger/">> \o ToStringChars(memberId),
            Undefined,
            Undefined)

sendPushNotifications(data) ==
    request("POST", <<"/user/push-notifications/send">>, data, Undefined)

getRoles ==
    request("GET", <<"/user/roles">>, Undefined, Undefined)

getWebhookSubscriptions ==
    request("GET", <<"/webhooks/subscription">>, Undefined, Undefined)

createWebhookSubscription(data) ==
    request("POST", <<"/webhooks/subscription">>, data, Undefined)

getWebhookSubscription(subscriptionId) ==
    request("GET",
            <<"/webhooks/subscription/">> \o ToStringChars(subscriptionId),
            Undefined,
            Undefined)

updateWebhookSubscription(subscriptionId, data) ==
    request("PUT",
            <<"/webhooks/subscription/">> \o ToStringChars(subscriptionId),
            data,
            Undefined)

deleteWebhookSubscription(subscriptionId) ==
    request("DELETE",
            <<"/webhooks/subscription/">> \o ToStringChars(subscriptionId),
            Undefined,
            Undefined)

getWebhookSampleData(eventType) ==
    request("GET",
            <<"/webhooks/sample-data/">> \o ToStringChars(eventType),
            Undefined,
            Undefined)

----------------------------------------------------------------------------
(* Tool definitions (src/src/index.ts lines 28-1053) *)

\* The tools array.  A descriptor is its name and, of its input schema, each
\* property's name and type and the required list; the description texts
\* are left out.
\* The section with a descriptor added for the client method
\* addMembersToGroupsSummary, for which handleToolCall has no case.
AuthTools_Unbound == <<
    [name |-> "learningsuite_check_auth",
     inputSchema |-> [properties |-> <<>>,
                     required |-> <<>>]],
    [name |-> "learningsuite_add_members_to_groups_summary",
     inputSchema |-> [properties |-> << <<"memberIds", "array">>, <<"groupIds", "array">> >>,
                     required |-> <<"memberIds", "groupIds">>]] >>

\* The Auth section left empty: check_auth stays bound but is not listed.
AuthTools_Hidden == <<>>

\* // Auth (lines 29-39)
AuthTools == <<
    [name |-> "learningsuite_check_auth",
     inputSchema |-> [properties |-> <<>>,
                     required |-> <<>>]] >>

\* // Members (lines 40-171)
MemberTools == <<
    [name |-> "learningsuite_list_members",
     inputSchema |-> [properties |-> << <<"includeGroups", "boolean">>, <<"days_not_logged_in_gte", "number">>, <<"include_never_logged_in", "boolean">>, <<"limit", "number">>, <<"offset", "number">> >>,
                     required |-> <<>>]],
    [name |-> "learningsuite_create_member",
     inputSchema |-> [properties |-> << <<"email", "string">>, <<"firstName", "string">>, <<"lastName", "string">>, <<"phone", "string">>, <<"about", "string">>, <<"position", "string">>, <<"city", "string">>, <<"password", "string">>, <<"disableLoginEmail", "boolean">>, <<"doNotRequirePasswordChange", "boolean">>, <<"locale", "string">>, <<"ignoreIfAlreadyExists", "boolean">> >>,
                     required |-> <<"email", "firstName", "lastName">>]],
    [name |-> "learningsuite_get_member",
     inputSchema |-> [properties |-> << <<"memberId", "string">>, <<"includeGroups", "boolean">> >>,
                     required |-> <<"memberId">>]],
    [name |-> "learningsuite_get_member_by_email",
     inputSchema |-> [properties |-> << <<"email", "string">>, <<"includeGroups", "boolean">> >>,
                     required |-> <<"email">>]],
    [name |-> "learningsuite_update_member",
     inputSchema |-> [properties |-> << <<"memberId", "string">>, <<"enabled", "boolean">>, <<"firstName", "string">>, <<"lastName", "string">>, <<"phone", "string">>, <<"about", "string">>, <<"position", "string">>, <<"city", "string">>, <<"email", "string">>, <<"locale", "string">> >>,
                     required |-> <<"memberId">>]],
    [name |-> "learningsuite_delete_member",
     inputSchema |-> [properties |-> << <<"memberId", "string">> >>,
                     required |-> <<"memberId">>]] >>

\* // Member Courses (lines 172-250)
MemberCourseTools == <<
    [name |-> "learningsuite_get_member_courses",
     inputSchema |-> [properties |-> << <<"memberId", "string">>, <<"dateForAccessCheck", "string">>, <<"limit", "number">>, <<"offset", "number">> >>,
                     required |-> <<"memberId">>]],
    [name |-> "learningsuite_add_member_to_courses",
     inputSchema |-> [properties |-> << <<"memberId", "string">>, <<"courseIds", "array">>, <<"accessGivenAt", "string">>, <<"disableAccessNotificationEmail", "boolean">>, <<"sendLoginLinkInCourseEmail", "boolean">> >>,
                     required |-> <<"memberId", "courseIds">>]],
    [name |-> "learningsuite_remove_member_from_courses",
     inputSchema |-> [properties |-> << <<"memberId", "string">>, <<"courseIds", "array">> >>,
                     required |-> <<"memberId", "courseIds">>]],
    [name |-> "learningsuite_get_member_course_info",
     inputSchema |-> [properties |-> << <<"memberId", "string">>, <<"courseId", "string">>, <<"dateForAccessCheck", "string">> >>,
                     required |-> <<"memberId", "courseId">>]] >>

\* // Member Bundles (lines 251-311)
MemberBundleTools == <<
    [name |-> "learningsuite_get_member_bundles",
     inputSchema |-> [properties |-> << <<"memberId", "string">> >>,
                     required |-> <<"memberId">>]],
    [name |-> "learningsuite_add_member_to_bundles",
     inputSchema |-> [properties |-> << <<"memberId", "string">>, <<"bundles", "array">>, <<"accessGivenAtOverride", "string">>, <<"accessUntilOverride", "string">>, <<"unlimitedAccess", "boolean">>, <<"disableAccessNotificationEmail", "boolean">> >>,
                     required |-> <<"memberId", "bundles">>]],
    [name |-> "learningsuite_remove_member_from_bundles",
     inputSchema |-> [properties |-> << <<"memberId", "string">>, <<"bundleIds", "array">> >>,
                     required |-> <<"memberId", "bundleIds">>]] >>

\* // Team Members (lines 312-347)
TeamMemberTools == <<
    [name |-> "learningsuite_list_team_members",
     inputSchema |-> [properties |-> << <<"limit", "number">>, <<"offset", "number">> >>,
                     required |-> <<>>]],
    [name |-> "learningsuite_get_team_member",
     inputSchema |-> [properties |-> << <<"userId", "string">> >>,
                     required |-> <<"userId">>]],
    [name |-> "learningsuite_get_team_member_by_email",
     inputSchema |-> [properties |-> << <<"email", "string">> >>,
                     required |-> <<"email">>]] >>

\* // Groups (lines 348-494)
GroupTools == <<
    [name |-> "learningsuite_list_groups",
     inputSchema |-> [properties |-> << <<"limit", "number">>, <<"offset", "number">> >>,
                     required |-> <<>>]],
    [name |-> "learningsuite_create_group",
     inputSchema |-> [properties |-> << <<"name", "string">>, <<"description", "string">> >>,
                     required |-> <<"name">>]],
    [name |-> "learningsuite_find_groups_by_name",
     inputSchema |-> [properties |-> << <<"name", "string">> >>,
                     required |-> <<"name">>]],
    [name |-> "learningsuite_delete_group",
     inputSchema |-> [properties |-> << <<"groupId", "string">> >>,
                     required |-> <<"groupId">>]],
    [name |-> "learningsuite_get_group_courses",
     inputSchema |-> [properties |-> << <<"groupId", "string">> >>,
                     required |-> <<"groupId">>]],
    [name |-> "learningsuite_add_courses_to_group",
     inputSchema |-> [properties |-> << <<"groupId", "string">>, <<"courseIds", "array">> >>,
                     required |-> <<"groupId", "courseIds">>]],
    [name |-> "learningsuite_remove_courses_from_group",
     inputSchema |-> [properties |-> << <<"groupId", "string">>, <<"courseIds", "array">> >>,
                     required |-> <<"groupId", "courseIds">>]],
    [name |-> "learningsuite_add_bundles_to_group",
     inputSchema |-> [properties |-> << <<"groupId", "string">>, <<"bundleIds", "array">> >>,
                     required |-> <<"groupId", "bundleIds">>]],
    [name |-> "learningsuite_add_members_to_groups",
     inputSchema |-> [properties |-> << <<"memberIds", "array">>, <<"groupIds", "array">> >>,
                     required |-> <<"memberIds", "groupIds">>]],
    [name |-> "learningsuite_remove_members_from_groups",
     inputSchema |-> [properties |-> << <<"memberIds", "array">>, <<"groupIds", "array">> >>,
                     required |-> <<"memberIds", "groupIds">>]] >>

\* // Courses (lines 495-609)
CourseTools == <<
    [name |-> "learningsuite_list_published_courses",
     inputSchema |-> [properties |-> <<>>,
                     required |-> <<>>]],
    [name |-> "learningsuite_get_course_modules",
     inputSchema |-> [properties |-> << <<"courseId", "string">> >>,
                     required |-> <<"courseId">>]],
    [name |-> "learningsuite_get_course_modules_for_member",
     inputSchema |-> [properties |-> << <<"courseId", "string">>, <<"memberId", "string">> >>,
                     required |-> <<"courseId", "memberId">>]],
    [name |-> "learningsuite_get_course_members",
     inputSchema |-> [properties |-> << <<"courseId", "string">>, <<"limit", "number">>, <<"offset", "number">>, <<"includeProgress", "boolean">> >>,
                     required |-> <<"courseId">>]],
    [name |-> "learningsuite_get_course_access_requests",
     inputSchema |-> [properties |-> << <<"courseId", "string">>, <<"limit", "number">>, <<"offset", "number">> >>,
                     required |-> <<"courseId">>]],
    [name |-> "learningsuite_get_course_submissions",
     inputSchema |-> [properties |-> << <<"courseId", "string">>, <<"limit", "number">>, <<"offset", "number">> >>,
                     required |-> <<"courseId">>]],
    [name |-> "learningsuite_create_lesson",
     inputSchema |-> [properties |-> << <<"courseId", "string">>, <<"sectionId", "string">>, <<"name", "string">>, <<"htmlContent", "string">>, <<"videoUrl", "string">>, <<"thumbnailUrl", "string">>, <<"timestampInSecondsToGenerateThumbnail", "number">>, <<"immediatelyPublishCourse", "boolean">>, <<"lessonSortPosition", "string">> >>,
                     required |-> <<"courseId", "sectionId", "name">>]] >>

\* // Modules & Lessons (lines 610-649)
ModuleLessonTools == <<
    [name |-> "learningsuite_get_module_sections",
     inputSchema |-> [properties |-> << <<"moduleId", "string">> >>,
                     required |-> <<"moduleId">>]],
    [name |-> "learningsuite_get_module_lessons",
     inputSchema |-> [properties |-> << <<"moduleId", "string">> >>,
                     required |-> <<"moduleId">>]],
    [name |-> "learningsuite_create_module_unlock_override",
     inputSchema |-> [properties |-> << <<"memberId", "string">>, <<"moduleId", "string">>, <<"unlockAt", "string">> >>,
                     required |-> <<"memberId", "moduleId">>]] >>

\* // Bundles (lines 650-673)
BundleTools == <<
    [name |-> "learningsuite_list_bundles",
     inputSchema |-> [properties |-> <<>>,
                     required |-> <<>>]],
    [name |-> "learningsuite_get_bundle_members",
     inputSchema |-> [properties |-> << <<"bundleId", "string">>, <<"limit", "number">>, <<"offset", "number">> >>,
                     required |-> <<"bundleId">>]] >>

\* // Hubs (lines 674-772)
HubTools == <<
    [name |-> "learningsuite_list_hubs",
     inputSchema |-> [properties |-> <<>>,
                     required |-> <<>>]],
    [name |-> "learningsuite_create_hub",
     inputSchema |-> [properties |-> << <<"name", "string">>, <<"hubTemplateId", "string">>, <<"variables", "object">> >>,
                     required |-> <<"name", "hubTemplateId">>]],
    [name |-> "learningsuite_list_hub_templates",
     inputSchema |-> [properties |-> <<>>,
                     required |-> <<>>]],
    [name |-> "learningsuite_get_hub_template_variables",
     inputSchema |-> [properties |-> << <<"hubTemplateId", "string">> >>,
                     required |-> <<"hubTemplateId">>]],
    [name |-> "learningsuite_add_hub_accesses",
     inputSchema |-> [properties |-> << <<"hubId", "string">>, <<"memberIds", "array">>, <<"groupIds", "array">>, <<"bundleIds", "array">> >>,
                     required |-> <<"hubId">>]],
    [name |-> "learningsuite_remove_hub_accesses",
     inputSchema |-> [properties |-> << <<"hubId", "string">>, <<"memberIds", "array">>, <<"groupIds", "array">>, <<"bundleIds", "array">> >>,
                     required |-> <<"hubId">>]] >>

\* // Community (lines 773-866)
CommunityTools == <<
    [name |-> "learningsuite_list_community_areas",
     inputSchema |-> [properties |-> <<>>,
                     required |-> <<>>]],
    [name |-> "learningsuite_list_community_forums",
     inputSchema |-> [properties |-> << <<"areaId", "string">>, <<"limit", "number">>, <<"offset", "number">> >>,
                     required |-> <<>>]],
    [name |-> "learningsuite_list_community_posts",
     inputSchema |-> [properties |-> << <<"forumId", "string">>, <<"limit", "number">>, <<"offset", "number">> >>,
                     required |-> <<>>]],
    [name |-> "learningsuite_comment_on_post",
     inputSchema |-> [properties |-> << <<"postId", "string">>, <<"content", "string">>, <<"parentCommentId", "string">> >>,
                     required |-> <<"postId", "content">>]],
    [name |-> "learningsuite_list_community_badges",
     inputSchema |-> [properties |-> <<>>,
                     required |-> <<>>]],
    [name |-> "learningsuite_assign_badges_to_user",
     inputSchema |-> [properties |-> << <<"userId", "string">>, <<"badgeIds", "array">> >>,
                     required |-> <<"userId", "badgeIds">>]],
    [name |-> "learningsuite_remove_badges_from_user",
     inputSchema |-> [properties |-> << <<"userId", "string">>, <<"badgeIds", "array">> >>,
                     required |-> <<"userId", "badgeIds">>]] >>

\* // Popups (lines 867-915)
PopupTools == <<
    [name |-> "learningsuite_list_popups",
     inputSchema |-> [properties |-> << <<"limit", "number">>, <<"offset", "number">> >>,
                     required |-> <<>>]],
    [name |-> "learningsuite_get_popup",
     inputSchema |-> [properties |-> << <<"popupId", "string">> >>,
                     required |-> <<"popupId">>]],
    [name |-> "learningsuite_trigger_popup",
     inputSchema |-> [properties |-> << <<"popupId", "string">>, <<"memberId", "string">> >>,
                     required |-> <<"popupId", "memberId">>]],
    [name |-> "learningsuite_remove_popup_trigger",
     inputSchema |-> [properties |-> << <<"popupId", "string">>, <<"memberId", "string">> >>,
                     required |-> <<"popupId", "memberId">>]] >>

\* // Push Notifications (lines 916-944)
PushNotificationTools == <<
    [name |-> "learningsuite_send_push_notifications",
     inputSchema |-> [properties |-> << <<"userIds", "array">>, <<"groupIds", "array">>, <<"title", "string">>, <<"body", "string">>, <<"linkUrl", "string">>, <<"publicImageUrl", "string">> >>,
                     required |-> <<"linkUrl">>]] >>

\* The Roles section with a second descriptor under a name already used.
RoleTools_Duplicate == <<
    [name |-> "learningsuite_list_roles",
     inputSchema |-> [properties |-> <<>>,
                     required |-> <<>>]],
    [name |-> "learningsuite_list_members",
     inputSchema |-> [properties |-> << <<"roleId", "string">> >>,
                     required |-> <<>>]] >>

\* // Roles (lines 945-955)
RoleTools == <<
    [name |-> "learningsuite_list_roles",
     inputSchema |-> [properties |-> <<>>,
                     required |-> <<>>]] >>

\* // Webhooks (lines 956-1052)
WebhookTools == <<
    [name |-> "learningsuite_list_webhook_subscriptions",
     inputSchema |-> [properties |-> <<>>,
                     required |-> <<>>]],
    [name |-> "learningsuite_create_webhook_subscription",
     inputSchema |-> [properties |-> << <<"url", "string">>, <<"events", "array">>, <<"secret", "string">> >>,
                     required |-> <<"url", "events">>]],
    [name |-> "learningsuite_get_webhook_subscription",
     inputSchema |-> [properties |-> << <<"subscriptionId", "string">> >>,
                     required |-> <<"subscriptionId">>]],
    [name |-> "learningsuite_update_webhook_subscription",
     inputSchema |-> [properties |-> << <<"subscriptionId", "string">>, <<"url", "string">>, <<"events", "array">>, <<"secret", "string">>, <<"enabled", "boolean">> >>,
                     required |-> <<"subscriptionId">>]],
    [name |-> "learningsuite_delete_webhook_subscription",
     inputSchema |-> [properties |-> << <<"subscriptionId", "string">> >>,
                     required |-> <<"subscriptionId">>]],
    [name |-> "learningsuite_get_webhook_sample_data",
     inputSchema |-> [properties |-> << <<"eventType", "string">> >>,
                     required |-> <<"eventType">>]] >>

Catalog ==
    AuthTools \o MemberTools \o MemberCourseTools \o MemberBundleTools \o TeamMemberTools \o
    GroupTools \o CourseTools \o ModuleLessonTools \o BundleTools \o HubTools \o
    CommunityTools \o PopupTools \o PushNotificationTools \o RoleTools \o WebhookTools

----------------------------------------------------------------------------
(* Tool handler (src/src/index.ts lines 1057-1228) *)

Nullish(x) == x.t \in {"undefined", "null"}

\* V8's TypeError for args.k with args undefined.
CannotRead(k) ==
    TypeError("Cannot read properties of undefined (reading '" \o k \o "')")

\* V8's TypeError for const { k, ...data } = args with args undefined.
CannotDestructure(k, of) ==
    TypeError("Cannot destructure property '" \o k \o "' of '" \o of \o
              "' as it is undefined.")

\* A client method that refuses a path with an undefined segment.
Fetch_Validated(f) ==
    IF \E i \in 1..Len(f.path) :
            /\ i + 8 <= Len(f.path)
            /\ SubSeq(f.path, i, i + 8) = <<"u", "n", "d", "e", "f", "i", "n", "e", "d">>
    THEN [kind |-> "throw",
          fetch |-> [url |-> "", path |-> <<>>, params |-> <<>>,
                     options |-> [method |-> "", headers |-> <<>>]],
          error |-> Error("Missing required field")]
    ELSE [kind |-> "fetch", fetch |-> f, error |-> [name |-> "", message |-> ""]]

\* A client method was called: the fetch it issued.
Fetch(f) == [kind |-> "fetch", fetch |-> f, error |-> [name |-> "", message |-> ""]]

NoFetch == [url |-> "", path |-> <<>>, params |-> <<>>,
            options |-> [method |-> "", headers |-> <<>>]]

\* The switch threw before any client method was called.
Threw(e) == [kind |-> "throw", fetch |-> NoFetch, error |-> e]

\* The default case with the name left out of the message.
UnknownTool_NoName(name) == Threw(Error("Unknown tool"))

\* The default case falling through to a client method.
UnknownTool_Forwarded(name) == Fetch(checkAuth)

\* The default case (lines 1225-1226).
UnknownTool(name) == Threw(Error("Unknown tool: " \o name))

\* handleToolCall up to the first await: the fetch of the bound client
\* method, or the error thrown before it.
handleToolCall(name, args) ==
    CASE name = "learningsuite_check_auth" ->
            Fetch(checkAuth)
      [] name = "learningsuite_list_members" ->
            Fetch(getMembers(args))
      [] name = "learningsuite_create_member" ->
            Fetch(createMember(args))
      [] name = "learningsuite_get_member" ->
            IF Nullish(args) THEN Threw(CannotRead("memberId"))
            ELSE Fetch(getMember(Get(args, "memberId"), Get(args, "includeGroups")))
      [] name = "learningsuite_get_member_by_email" ->
            IF Nullish(args) THEN Threw(CannotRead("email"))
            ELSE Fetch(getMemberByEmail(Get(args, "email"), Get(args, "includeGroups")))
      [] name = "learningsuite_update_member" ->
            IF Nullish(args) THEN Threw(CannotDestructure("memberId", "args"))
            ELSE Fetch(updateMember(Get(args, "memberId"), Rest(args, "memberId")))
      [] name = "learningsuite_delete_member" ->
            IF Nullish(args) THEN Threw(CannotRead("memberId"))
            ELSE Fetch(deleteMember(Get(args, "memberId")))
      [] name = "learningsuite_get_member_courses" ->
            IF Nullish(args) THEN Threw(CannotRead("memberId"))
            ELSE Fetch(getMemberCourses(Get(args, "memberId"), args))
      [] name = "learningsuite_add_member_to_courses" ->
            IF Nullish(args) THEN Threw(CannotRead("memberId"))
            ELSE Fetch(addMemberToCourses(Get(args, "memberId"), args))
      [] name = "learningsuite_remove_member_from_courses" ->
            IF Nullish(args) THEN Threw(CannotRead("memberId"))
            ELSE Fetch(removeMemberFromCourses(Get(args, "memberId"), Get(args, "courseIds")))
      [] name = "learningsuite_get_member_course_info" ->
            IF Nullish(args) THEN Threw(CannotRead("memberId"))
            ELSE Fetch(getMemberCourseInfo(Get(args, "memberId"), Get(args, "courseId"), Get(args, "dateForAccessCheck")))
      [] name = "learningsuite_get_member_bundles" ->
            IF Nullish(args) THEN Threw(CannotRead("memberId"))
            ELSE Fetch(getMemberBundles(Get(args, "memberId")))
      [] name = "learningsuite_add_member_to_bundles" ->
            IF Nullish(args) THEN Threw(CannotRead("memberId"))
            ELSE Fetch(addMemberToBundles(Get(args, "memberId"), args))
      [] name = "learningsuite_remove_member_from_bundles" ->
            IF Nullish(args) THEN Threw(CannotRead("memberId"))
            ELSE Fetch(removeMemberFromBundles(Get(args, "memberId"), Get(args, "bundleIds")))
      [] name = "learningsuite_list_team_members" ->
            Fetch(getTeamMembers(args))
      [] name = "learningsuite_get_team_member" ->
            IF Nullish(args) THEN Threw(CannotRead("userId"))
            ELSE Fetch(getTeamMember(Get(args, "userId")))
      [] name = "learningsuite_get_team_member_by_email" ->
            IF Nullish(args) THEN Threw(CannotRead("email"))
            ELSE Fetch(getTeamMemberByEmail(Get(args, "email")))
      [] name = "learningsuite_list_groups" ->
            Fetch(getGroups(args))
      [] name = "learningsuite_create_group" ->
            Fetch(createGroup(args))
      [] name = "learningsuite_find_groups_by_name" ->
            IF Nullish(args) THEN Threw(CannotRead("name"))
            ELSE Fetch(findGroupsByName(Get(args, "name")))
      [] name = "learningsuite_delete_group" ->
            IF Nullish(args) THEN Threw(CannotRead("groupId"))
            ELSE Fetch(deleteGroup(Get(args, "groupId")))
      [] name = "learningsuite_get_group_courses" ->
            IF Nullish(args) THEN Threw(CannotRead("groupId"))
            ELSE Fetch(getGroupCourses(Get(args, "groupId")))
      [] name = "learningsuite_add_courses_to_group" ->
            IF Nullish(args) THEN Threw(CannotRead("groupId"))
            ELSE Fetch(addCoursesToGroup(Get(args, "groupId"), Get(args, "courseIds")))
      [] name = "learningsuite_remove_courses_from_group" ->
            IF Nullish(args) THEN Threw(CannotRead("groupId"))
            ELSE Fetch(removeCoursesFromGroup(Get(args, "groupId"), Get(args, "courseIds")))
      [] name = "learningsuite_add_bundles_to_group" ->
            IF Nullish(args) THEN Threw(CannotRead("groupId"))
            ELSE Fetch(addBundlesToGroup(Get(args, "groupId"), Get(args, "bundleIds")))
      [] name = "learningsuite_add_members_to_groups" ->
            Fetch(addMembersToGroups(args))
      [] name = "learningsuite_remove_members_from_groups" ->
            Fetch(removeMembersFromGroups(args))
      [] name = "learningsuite_list_published_courses" ->
            Fetch(getPublishedCourses)
      [] name = "learningsuite_get_course_modules" ->
            IF Nullish(args) THEN Threw(CannotRead("courseId"))
            ELSE Fetch(getCourseModules(Get(args, "courseId")))
      [] name = "learningsuite_get_course_modules_for_member" ->
            IF Nullish(args) THEN Threw(CannotRead("courseId"))
            ELSE Fetch(getCourseModulesForMember(Get(args, "courseId"), Get(args, "memberId")))
      [] name = "learningsuite_get_course_members" ->
            IF Nullish(args) THEN Threw(CannotRead("courseId"))
            ELSE Fetch(getCourseMembers(Get(args, "courseId"), args))
      [] name = "learningsuite_get_course_access_requests" ->
            IF Nullish(args) THEN Threw(CannotRead("courseId"))
            ELSE Fetch(getCourseAccessRequests(Get(args, "courseId"), args))
      [] name = "learningsuite_get_course_submissions" ->
            IF Nullish(args) THEN Threw(CannotRead("courseId"))
            ELSE Fetch(getCourseSubmissions(Get(args, "courseId"), args))
      [] name = "learningsuite_create_lesson" ->
            IF Nullish(args) THEN Threw(CannotRead("courseId"))
            ELSE Fetch(createLesson(Get(args, "courseId"), Get(args, "sectionId"), args))
      [] name = "learningsuite_get_module_sections" ->
            IF Nullish(args) THEN Threw(CannotRead("moduleId"))
            ELSE Fetch(getModuleSections(Get(args, "moduleId")))
      [] name = "learningsuite_get_module_lessons" ->
            IF Nullish(args) THEN Threw(CannotRead("moduleId"))
            ELSE Fetch(getModuleLessons(Get(args, "moduleId")))
      [] name = "learningsuite_create_module_unlock_override" ->
            Fetch(createModuleUnlockOverride(args))
      [] name = "learningsuite_list_bundles" ->
            Fetch(getBundles)
      [] name = "learningsuite_get_bundle_members" ->
            IF Nullish(args) THEN Threw(CannotRead("bundleId"))
            ELSE Fetch(getBundleMembers(Get(args, "bundleId"), args))
      [] name = "learningsuite_list_hubs" ->
            Fetch(getHubs)
      [] name = "learningsuite_create_hub" ->
            Fetch(createHub(args))
      [] name = "learningsuite_list_hub_templates" ->
            Fetch(getHubTemplates)
      [] name = "learningsuite_get_hub_template_variables" ->
            IF Nullish(args) THEN Threw(CannotRead("hubTemplateId"))
            ELSE Fetch(getHubTemplateVariables(Get(args, "hubTemplateId")))
      [] name = "learningsuite_add_hub_accesses" ->
            IF Nullish(args) THEN Threw(CannotRead("hubId"))
            ELSE Fetch(addHubAccesses(Get(args, "hubId"), args))
      [] name = "learningsuite_remove_hub_accesses" ->
            IF Nullish(args) THEN Threw(CannotRead("hubId"))
            ELSE Fetch(removeHubAccesses(Get(args, "hubId"), args))
      [] name = "learningsuite_list_community_areas" ->
            Fetch(getCommunityAreas)
      [] name = "learningsuite_list_community_forums" ->
            Fetch(getCommunityForums(args))
      [] name = "learningsuite_list_community_posts" ->
            Fetch(getCommunityPosts(args))
      [] name = "learningsuite_comment_on_post" ->
            IF Nullish(args) THEN Threw(CannotRead("postId"))
            ELSE Fetch(commentOnPost(Get(args, "postId"), args))
      [] name = "learningsuite_list_community_badges" ->
            Fetch(getCommunityBadges)
      [] name = "learningsuite_assign_badges_to_user" ->
            Fetch(assignBadgesToUser(args))
      [] name = "learningsuite_remove_badges_from_user" ->
            Fetch(removeBadgesFromUser(args))
      [] name = "learningsuite_list_popups" ->
            Fetch(getPopups(args))
      [] name = "learningsuite_get_popup" ->
            IF Nullish(args) THEN Threw(CannotRead("popupId"))
            ELSE Fetch(getPopup(Get(args, "popupId")))
      [] name = "learningsuite_trigger_popup" ->
            IF Nullish(args) THEN Threw(CannotRead("popupId"))
            ELSE Fetch(triggerPopup(Get(args, "popupId"), Get(args, "memberId")))
      [] name = "learningsuite_remove_popup_trigger" ->
            IF Nullish(args) THEN Threw(CannotRead("popupId"))
            ELSE Fetch(removePopupTrigger(Get(args, "popupId"), Get(args, "memberId")))
      [] name = "learningsuite_send_push_notifications" ->
            Fetch(sendPushNotifications(args))
      [] name = "learningsuite_list_roles" ->
            Fetch(getRoles)
      [] name = "learningsuite_list_webhook_subscriptions" ->
            Fetch(getWebhookSubscriptions)
      [] name = "learningsuite_create_webhook_subscription" ->
            Fetch(createWebhookSubscription(args))
      [] name = "learningsuite_get_webhook_subscription" ->
            IF Nullish(args) THEN Threw(CannotRead("subscriptionId"))
            ELSE Fetch(getWebhookSubscription(Get(args, "subscriptionId")))
      [] name = "learningsuite_update_webhook_subscription" ->
            IF Nullish(args) THEN Threw(CannotDestructure("subscriptionId", "args"))
            ELSE Fetch(updateWebhookSubscription(Get(args, "subscriptionId"), Rest(args, "subscriptionId")))
      [] name = "learningsuite_delete_webhook_subscription" ->
            IF Nullish(args) THEN Threw(CannotRead("subscriptionId"))
            ELSE Fetch(deleteWebhookSubscription(Get(args, "subscriptionId")))
      [] name = "learningsuite_get_webhook_sample_data" ->
            IF Nullish(args) THEN Threw(CannotRead("eventType"))
            ELSE Fetch(getWebhookSampleData(Get(args, "eventType")))
      [] OTHER -> UnknownTool(name)

----------------------------------------------------------------------------
(* Server setup (src/src/index.ts lines 17-24 and 1232-1273) *)

\* error instanceof Error
InstanceOfError(e) == e.name \in {"Error", "TypeError", "SyntaxError"}

\* The success envelope with JSON.stringify(result), not indented.
SuccessEnvelope_Compact(payload) ==
    [content |-> <<[type |-> "text", text |-> JSONStringify(payload)]>>]

\* The handler's return on success (lines 1252-1260).
SuccessEnvelope(payload) ==
    [content |-> <<[type |-> "text", text |-> JSONStringifyPretty(payload)]>>]

\* The catch block's envelope without isError.
ErrorEnvelope_NoFlag(e) ==
    LET errorMessage == IF InstanceOfError(e) THEN e.message ELSE e.name
    IN  [content |-> <<[type |-> "text", text |-> "Error: " \o errorMessage]>>]

\* The handler's return from its catch block (lines 1261-1272).
ErrorEnvelope(e) ==
    LET errorMessage == IF InstanceOfError(e) THEN e.message ELSE e.name
    IN  [content |-> <<[type |-> "text", text |-> "Error: " \o errorMessage]>>,
         isError |-> TRUE]

\* The handler without its catch block: an error goes on to the host.
CallToolHandler_NoCatch(r) ==
    IF r.kind = "return"
    THEN [kind |-> "return", envelope |-> SuccessEnvelope(r.value)]
    ELSE [kind |-> "throw", error |-> r.error]

\* The handler once `await handleToolCall(...)` has settled with r (lines
\* 1251-1272): the try block returns the success envelope, the catch block
\* the failure envelope; nothing is rethrown.
CallToolHandler(r) ==
    IF r.kind = "return"
    THEN [kind |-> "return", envelope |-> SuccessEnvelope(r.value)]
    ELSE [kind |-> "return", envelope |-> ErrorEnvelope(r.error)]

----------------------------------------------------------------------------
(* The inputs of the model *)

\* The largest number of optional schema fields an argument map adds to the
\* required ones (besides the map with every field).
MaxOptional == 1

\* The largest number of fields outside the schema in an argument map.
MaxExtra == 1

\* One call is in flight at a time.
CallIds == {1}

\* The values LEARNINGSUITE_API_KEY is started with: unset, empty, a key.
EnvValues == {Undefined, Str(<<>>), Str(<<"k", "1">>)}

\* The kinds of values an argument map holds.
Variants == {"plain", "falsy", "hostile"}

\* A value of JSON schema type ty.
ValueOf(ty, variant) ==
    CASE ty = "string" ->
            (CASE variant = "plain" -> Str(<<"m", "1">>)
               [] variant = "falsy" -> Str(<<>>)
               [] variant = "hostile" -> Str(<<"a", "/", "b", "?", "c", "#">>))
      [] ty = "number" ->
            (CASE variant = "plain" -> Num(5)
               [] variant = "falsy" -> Num(0)
               [] variant = "hostile" -> Num(10))
      [] ty = "boolean" -> Bool(variant # "falsy")
      [] ty = "array" ->
            (CASE variant = "plain" -> Arr(<<Str(<<"c", "1">>), Str(<<"c", "2">>)>>)
               [] variant = "falsy" -> Arr(<<>>)
               [] variant = "hostile" -> Arr(<<Str(<<"c", "1">>)>>))
      [] ty = "object" ->
            (CASE variant = "plain" -> Obj(<< <<"k", Str(<<"v">>)>> >>)
               [] variant = "falsy" -> Obj(<<>>)
               [] variant = "hostile" -> Null)

PropertyNames(d) ==
    {d.inputSchema.properties[i][1] : i \in 1..Len(d.inputSchema.properties)}

Required(d) ==
    {d.inputSchema.required[i] : i \in 1..Len(d.inputSchema.required)}

\* The names of the fields outside every schema.
ExtraKey(i) == "extra" \o ToString(i)

\* The sets of schema fields an argument map holds: the required fields with
\* up to MaxOptional optional ones, every field, the required fields but one,
\* and none.
KeySets(d) ==
    LET P == PropertyNames(d)
        R == Required(d)
    IN  {R \cup S : S \in {T \in SUBSET (P \ R) : Cardinality(T) <= MaxOptional}}
        \cup {P} \cup {R \ {r} : r \in R} \cup {{}}

\* The argument map with the fields K of descriptor d, in schema order,
\* followed by n fields outside the schema.
MakeArgs(d, K, variant, n) ==
    LET props == SelectSeq(d.inputSchema.properties, LAMBDA q : q[1] \in K)
    IN  Obj([i \in 1..Len(props) |-> <<props[i][1], ValueOf(props[i][2], variant)>>]
            \o [i \in 1..n |-> <<ExtraKey(i), ValueOf("string", variant)>>])

\* request.params.arguments for a call of the tool d describes: absent, a map
\* of schema fields, or the required fields with fields outside the schema.
ArgMaps(d) ==
    {Undefined}
    \cup {MakeArgs(d, K, variant, 0) : K \in KeySets(d), variant \in Variants}
    \cup {MakeArgs(d, Required(d), variant, n) : variant \in Variants, n \in 1..MaxExtra}

ToolNames == {Catalog[i].name : i \in 1..Len(Catalog)}

Descriptor(name) == Catalog[CHOOSE i \in 1..Len(Catalog) : Catalog[i].name = name]

\* Names no descriptor has; the second is a client method without a tool.
UnknownNames == {"not_a_real_tool", "learningsuite_add_members_to_groups_summary"}

UnknownArgs == {Undefined, Obj(<<>>), Obj(<< <<"memberId", Str(<<"m", "1">>)>> >>)}

\* The HTTP statuses the remote API answers with.
Statuses == {200, 204, 404, 500}

\* The response texts the remote API answers with.
\* {"id":"m1","ok":[true,0]}
ObjectText ==
    <<"{", "\"", "i", "d", "\"", ":", "\"", "m", "1", "\"", ",",
      "\"", "o", "k", "\"", ":", "[", "t", "r", "u", "e", ",", "0", "]", "}">>

NotFoundText == <<"n", "o", "t", " ", "f", "o", "u", "n", "d">>

\* {"id":  (a JSON text cut short)
TruncatedText == <<"{", "\"", "i", "d", "\"", ":">>

Bodies ==
    { <<>>, <<" ">>, <<"{", "}">>, <<"n", "u", "l", "l">>,
      ObjectText, NotFoundText, TruncatedText }

----------------------------------------------------------------------------
(* The state machine *)

NoCall == [name |-> "", arguments |-> Undefined]

NoResponse == [status |-> 0, text |-> <<>>, read |-> FALSE]

NoResult == [kind |-> "none", value |-> Undefined, error |-> [name |-> "", message |-> ""]]

Init ==
    /\ env \in EnvValues
    /\ phase = "boot"
    /\ client = [apiKey |-> Undefined]
    /\ tools = <<>>
    /\ pc = [c \in CallIds |-> "idle"]
    /\ call = [c \in CallIds |-> NoCall]
    /\ sent = [c \in CallIds |-> <<>>]
    /\ response = [c \in CallIds |-> NoResponse]
    /\ result = [c \in CallIds |-> NoResult]
    /\ replies = [c \in CallIds |-> <<>>]
    /\ listed = <<>>
    /\ failed = FALSE

\* Startup without the test of the key.
Startup_NoCheck ==
    /\ phase = "boot"
    /\ phase' = "serving"
    /\ client' = [apiKey |-> env]
    /\ tools' = Catalog
    /\ UNCHANGED <<env, pc, call, sent, response, result, replies, listed, failed>>

\* Module evaluation, lines 17-28 and main(): without a key the process
\* exits; otherwise the client and the catalog are built and the server
\* serves requests.
Startup ==
    /\ phase = "boot"
    /\ IF ~Truthy(env)
       THEN /\ phase' = "exited"
            /\ UNCHANGED <<client, tools>>
       ELSE /\ phase' = "serving"
            /\ client' = [apiKey |-> env]
            /\ tools' = Catalog
    /\ UNCHANGED <<env, pc, call, sent, response, result, replies, listed, failed>>

\* ListTools leaving out the tools that calls in flight are using.
ListTools_Filtered ==
    /\ phase = "serving"
    /\ \A c \in DOMAIN pc : pc[c] # "done"
    /\ listed' = SelectSeq(tools, LAMBDA d : \A c \in DOMAIN pc : call[c].name # d.name)
    /\ UNCHANGED <<env, phase, client, tools, pc, call, sent, response, result, replies,
                   failed>>

\* The ListTools request handler (lines 1244-1246).  It runs between the
\* steps of the calls in flight (a returned call is not in flight).
ListTools ==
    /\ phase = "serving"
    /\ \A c \in DOMAIN pc : pc[c] # "done"
    /\ listed' = tools
    /\ UNCHANGED <<env, phase, client, tools, pc, call, sent, response, result, replies,
                   failed>>

\* handleToolCall has settled with r: the handler returns its envelope to
\* the protocol host.  (A handler that threw instead would leave the call
\* "rejected", with no envelope.)
Settle(c, r) ==
    LET h == CallToolHandler(r)
    IN  /\ result' = [result EXCEPT ![c] = r]
        /\ failed' = (failed \/ r.kind = "throw")
        /\ IF h.kind = "return"
           THEN /\ replies' = [replies EXCEPT ![c] = Append(@, h.envelope)]
                /\ pc' = [pc EXCEPT ![c] = "done"]
           ELSE /\ pc' = [pc EXCEPT ![c] = "rejected"]
                /\ UNCHANGED replies

\* The CallTool request handler (lines 1248-1273) from the request to its
\* first await: handleToolCall throws, or a client method calls fetch.
CallTool(c, name, args) ==
    /\ phase = "serving"
    /\ pc[c] = "idle"
    /\ call' = [call EXCEPT ![c] = [name |-> name, arguments |-> args]]
    /\ LET r == handleToolCall(name, args)
       IN  IF r.kind = "throw"
           THEN /\ Settle(c, Throw(r.error))
                /\ UNCHANGED sent
           ELSE /\ sent' = [sent EXCEPT ![c] = Append(@, r.fetch)]
                /\ pc' = [pc EXCEPT ![c] = "fetching"]
                /\ UNCHANGED <<result, replies, failed>>
    /\ listed' = <<>>
    /\ UNCHANGED <<env, phase, client, tools, response>>

\* fetch rejects and the request is sent again.
FetchRejects_Retry(c) ==
    /\ pc[c] = "fetching"
    /\ Len(sent[c]) < 3
    /\ sent' = [sent EXCEPT ![c] = Append(@, @[1])]
    /\ listed' = <<>>
    /\ UNCHANGED <<env, phase, client, tools, pc, call, response, result, replies, failed>>

\* fetch rejects (no connection): request rethrows, the handler catches.
FetchRejects(c) ==
    /\ pc[c] = "fetching"
    /\ Settle(c, Throw(TypeError("fetch failed")))
    /\ listed' = <<>>
    /\ UNCHANGED <<env, phase, client, tools, call, sent, response>>

\* fetch resolves with a response of this status; request awaits its text().
FetchResolves(c, status) ==
    /\ pc[c] = "fetching"
    /\ response' = [response EXCEPT ![c] = [status |-> status, text |-> <<>>, read |-> FALSE]]
    /\ pc' = [pc EXCEPT ![c] = "reading"]
    /\ listed' = <<>>
    /\ UNCHANGED <<env, phase, client, tools, call, sent, result, replies, failed>>

\* The text is dropped and the request is sent again, without end.
TextResolves_Refetch(c, text) ==
    /\ pc[c] = "reading"
    /\ pc' = [pc EXCEPT ![c] = "fetching"]
    /\ response' = [response EXCEPT ![c] = NoResponse]
    /\ listed' = <<>>
    /\ UNCHANGED <<env, phase, client, tools, call, sent, result, replies, failed>>

\* The status is taken from the first slot that is reading, as if the
\* response were kept in one place for all calls.
TextResolves_SharedResponse(c, text) ==
    LET d == CHOOSE d \in DOMAIN pc : pc[d] = "reading" /\ \A e \in DOMAIN pc :
                                            pc[e] = "reading" => d <= e
    IN  /\ pc[c] = "reading"
        /\ response' = [response EXCEPT ![c] = [status |-> @.status, text |-> text, read |-> TRUE]]
        /\ Settle(c, requestOnResponse(response[d].status, text))
        /\ listed' = <<>>
        /\ UNCHANGED <<env, phase, client, tools, call, sent>>

\* response.text() resolves: request returns or throws (lines 53-63) and the
\* handler returns its envelope.
TextResolves(c, text) ==
    /\ pc[c] = "reading"
    /\ response' = [response EXCEPT ![c] = [status |-> @.status, text |-> text, read |-> TRUE]]
    /\ Settle(c, requestOnResponse(response[c].status, text))
    /\ listed' = <<>>
    /\ UNCHANGED <<env, phase, client, tools, call, sent>>

\* response.text() rejects (the connection broke while the body was read).
TextRejects(c) ==
    /\ pc[c] = "reading"
    /\ Settle(c, Throw(TypeError("terminated")))
    /\ listed' = <<>>
    /\ UNCHANGED <<env, phase, client, tools, call, sent, response>>

\* The envelope of a failed call is kept for the next call of the slot.
Respond_KeepsFailure(c) ==
    /\ pc[c] = "done"
    /\ pc' = [pc EXCEPT ![c] = "idle"]
    /\ call' = [call EXCEPT ![c] = NoCall]
    /\ sent' = [sent EXCEPT ![c] = <<>>]
    /\ response' = [response EXCEPT ![c] = NoResponse]
    /\ result' = [result EXCEPT ![c] = NoResult]
    /\ replies' = [replies EXCEPT ![c] = IF result[c].kind = "throw" THEN @ ELSE <<>>]
    /\ listed' = <<>>
    /\ UNCHANGED <<env, phase, client, tools, failed>>

\* The protocol host has the envelope; nothing of the call is retained.
Respond(c) ==
    /\ pc[c] = "done"
    /\ pc' = [pc EXCEPT ![c] = "idle"]
    /\ call' = [call EXCEPT ![c] = NoCall]
    /\ sent' = [sent EXCEPT ![c] = <<>>]
    /\ response' = [response EXCEPT ![c] = NoResponse]
    /\ result' = [result EXCEPT ![c] = NoResult]
    /\ replies' = [replies EXCEPT ![c] = <<>>]
    /\ listed' = <<>>
    /\ UNCHANGED <<env, phase, client, tools, failed>>

Next ==
    \/ Startup
    \/ ListTools
    \/ \E c \in CallIds : \E name \in ToolNames : \E args \in ArgMaps(Descriptor(name)) :
            CallTool(c, name, args)
    \/ \E c \in CallIds : \E name \in UnknownNames : \E args \in UnknownArgs :
            CallTool(c, name, args)
    \/ \E c \in CallIds : FetchRejects(c)
    \/ \E c \in CallIds : \E status \in Statuses : FetchResolves(c, status)
    \/ \E c \in CallIds : \E text \in Bodies : TextResolves(c, text)
    \/ \E c \in CallIds : TextRejects(c)
    \/ \E c \in CallIds : Respond(c)

Spec == Init /\ [][Next]_vars

----------------------------------------------------------------------------
(* Two calls in flight at once *)

\* The protocol host dispatches a second request while the first awaits.
ConcurrentIds == {1, 2}

\* The requests the host sends in this specification.
ConcurrentCalls ==
    { [name |-> "learningsuite_get_member",
       arguments |-> Obj(<< <<"memberId", Str(<<"m", "1">>)>> >>)],
      [name |-> "learningsuite_get_member",
       arguments |-> Obj(<< <<"memberId", Str(<<"m", "2">>)>>,
                            <<"includeGroups", Bool(TRUE)>> >>)],
      [name |-> "learningsuite_delete_member",
       arguments |-> Obj(<< <<"memberId", Str(<<"m", "1">>)>> >>)],
      [name |-> "learningsuite_update_member", arguments |-> Undefined],
      [name |-> "not_a_real_tool", arguments |-> Obj(<<>>)] }

InitConcurrent ==
    /\ env \in EnvValues
    /\ phase = "boot"
    /\ client = [apiKey |-> Undefined]
    /\ tools = <<>>
    /\ pc = [c \in ConcurrentIds |-> "idle"]
    /\ call = [c \in ConcurrentIds |-> NoCall]
    /\ sent = [c \in ConcurrentIds |-> <<>>]
    /\ response = [c \in ConcurrentIds |-> NoResponse]
    /\ result = [c \in ConcurrentIds |-> NoResult]
    /\ replies = [c \in ConcurrentIds |-> <<>>]
    /\ listed = <<>>
    /\ failed = FALSE

NextConcurrent ==
    \/ Startup
    \/ ListTools
    \/ \E c \in ConcurrentIds : \E r \in ConcurrentCalls : CallTool(c, r.name, r.arguments)
    \/ \E c \in ConcurrentIds : FetchRejects(c)
    \/ \E c \in ConcurrentIds : \E status \in Statuses : FetchResolves(c, status)
    \/ \E c \in ConcurrentIds : \E text \in Bodies : TextResolves(c, text)
    \/ \E c \in ConcurrentIds : TextRejects(c)
    \/ \E c \in ConcurrentIds : Respond(c)

SpecConcurrent == InitConcurrent /\ [][NextConcurrent]_vars

\* The HTTP round trip of call c ends: fetch settles, and the text of a
\* response that arrived settles.
RoundTripEnds(c) ==
    /\ WF_vars(FetchRejects(c) \/ \E status \in Statuses : FetchResolves(c, status))
    /\ WF_vars(TextRejects(c) \/ \E text \in Bodies : TextResolves(c, text))

\* Two calls in flight, each with a round trip that ends.  Nothing is assumed
\* about the host: it need not send requests nor take the envelopes.
SpecLive ==
    InitConcurrent /\ [][NextConcurrent]_vars /\ \A c \in ConcurrentIds : RoundTripEnds(c)

----------------------------------------------------------------------------
(* Properties *)

\* The names of the descriptors the server has registered.
Registered == {tools[i].name : i \in 1..Len(tools)}

RegisteredDescriptor(name) == tools[CHOOSE i \in 1..Len(tools) : tools[i].name = name]

\* The envelope call c returned.
Reply(c) == replies[c][1]

TextOf(e) == e.content[1].text

\* isError: true
IsFailure(e) == "isError" \in DOMAIN e /\ e.isError = TRUE

\* content is exactly one block, of type text.
OneTextBlock(e) ==
    /\ DOMAIN e.content = 1..1
    /\ DOMAIN e.content[1] = {"type", "text"}
    /\ e.content[1].type = "text"

\* C1: whatever the tool name, the argument map and the outcome of the HTTP
\* round trip, the CallTool handler returns one Result Envelope whose
\* content is exactly one text block; no error leaves the handler, and no
\* envelope is returned before the call has settled.
C1_AlwaysOneTextBlock ==
    \A c \in CallIds :
        /\ pc[c] # "rejected"
        /\ pc[c] = "done" => Len(replies[c]) = 1 /\ OneTextBlock(Reply(c))
        /\ pc[c] \in {"idle", "fetching", "reading"} => replies[c] = <<>>

\* A call without an arguments map whose fetch failed has returned its
\* envelope.
C1_Witness ==
    \E c \in CallIds :
        /\ pc[c] = "done"
        /\ call[c].name = "learningsuite_list_members"
        /\ call[c].arguments = Undefined
        /\ result[c].error.message = "fetch failed"
        /\ OneTextBlock(Reply(c))

\* C2: a call of a name that no descriptor has returns (it does not throw) a
\* failure envelope whose text is "Error: Unknown tool: " and the name.
C2_UnknownToolFails ==
    \A c \in CallIds :
        (pc[c] # "idle" /\ call[c].name \notin Registered) =>
            /\ pc[c] = "done"
            /\ Len(replies[c]) = 1
            /\ IsFailure(Reply(c))
            /\ TextOf(Reply(c)) = "Error: Unknown tool: " \o call[c].name

\* CallTool("not_a_real_tool", {}) has returned.
C2_Witness ==
    \E c \in CallIds :
        /\ pc[c] = "done"
        /\ call[c] = [name |-> "not_a_real_tool", arguments |-> Obj(<<>>)]
        /\ TextOf(Reply(c)) = "Error: Unknown tool: not_a_real_tool"

\* C3: a call of a registered name with an argument map that holds the
\* schema's required fields reaches a client method (its HTTP request is
\* issued) and never ends in "Unknown tool"; and handleToolCall has a case
\* for every registered descriptor.
C3_CatalogComplete ==
    /\ \A c \in CallIds :
        (/\ pc[c] # "idle"
         /\ call[c].name \in Registered
         /\ call[c].arguments.t = "object"
         /\ Required(RegisteredDescriptor(call[c].name)) \subseteq Keys(call[c].arguments)) =>
            /\ Len(sent[c]) = 1
            /\ pc[c] = "done" =>
                    TextOf(Reply(c)) # "Error: Unknown tool: " \o call[c].name
    /\ (phase = "serving" /\ \A c \in CallIds : pc[c] = "idle") =>
            \A i \in 1..Len(tools) :
                handleToolCall(tools[i].name,
                               MakeArgs(tools[i], Required(tools[i]), "plain", 0)).kind = "fetch"

\* learningsuite_create_lesson was called with exactly its three required
\* fields and its request is in flight.
C3_Witness ==
    \E c \in CallIds :
        /\ pc[c] = "fetching"
        /\ call[c].name = "learningsuite_create_lesson"
        /\ Keys(call[c].arguments) = {"courseId", "sectionId", "name"}
        /\ Len(sent[c]) = 1

\* The response of call c has been read: response.text() resolved.
Read(c) == pc[c] = "done" /\ response[c].read

Success(status) == status \in 200..299

MalformedBodies == {<<" ">>, NotFoundText, TruncatedText}

\* C5: whenever the call path throws (unknown tool, destructuring of an
\* absent argument map, network failure, non-2xx status, JSON parse failure)
\* the envelope is exactly {content: [{type: "text", text: "Error: " +
\* message}], isError: true}.
C5_FailureEnvelope ==
    \A c \in CallIds :
        /\ (pc[c] = "done" /\ result[c].kind = "throw") =>
                Reply(c) = [content |-> <<[type |-> "text",
                                           text |-> "Error: " \o result[c].error.message]>>,
                            isError |-> TRUE]
        /\ (/\ pc[c] = "done"
            /\ \/ sent[c] = <<>>
               \/ ~response[c].read
               \/ ~Success(response[c].status)
               \/ response[c].text \in MalformedBodies) =>
                result[c].kind = "throw"
        /\ (/\ pc[c] = "done"
            /\ call[c] = [name |-> "learningsuite_update_member", arguments |-> Undefined]) =>
                TextOf(Reply(c)) =
                    "Error: Cannot destructure property 'memberId' of 'args' as it is undefined."
        /\ (Read(c) /\ response[c].status = 500 /\ response[c].text = <<>>) =>
                TextOf(Reply(c)) = "Error: API Error 500: "

\* A 2xx response that is not JSON has been answered with the SyntaxError's
\* message.
C5_Witness ==
    \E c \in CallIds :
        /\ Read(c)
        /\ result[c].kind = "throw"
        /\ result[c].error.name = "SyntaxError"
        /\ IsFailure(Reply(c))
        /\ TextOf(Reply(c)) = "Error: Unexpected token o in JSON at position 1"

\* C6: for a known tool, a response of a status outside 200..299 with any
\* text b ends in a failure envelope whose text is "Error: API Error <s>: "
\* and b as it came, also when b is empty or is JSON.
C6_StatusPassthrough ==
    \A c \in CallIds :
        (Read(c) /\ call[c].name \in Registered /\ ~Success(response[c].status)) =>
            /\ IsFailure(Reply(c))
            /\ TextOf(Reply(c)) = "Error: API Error " \o ToString(response[c].status)
                                    \o ": " \o Join(response[c].text)
            /\ (response[c].status = 404 /\ response[c].text = NotFoundText) =>
                    TextOf(Reply(c)) = "Error: API Error 404: not found"
            /\ (response[c].status = 500 /\ response[c].text = <<"{", "}">>) =>
                    TextOf(Reply(c)) = "Error: API Error 500: {}"

\* A 404 with the text "not found" has been answered.
C6_Witness ==
    \E c \in CallIds :
        /\ Read(c)
        /\ call[c].name = "learningsuite_get_member"
        /\ response[c].status = 404
        /\ response[c].text = NotFoundText
        /\ TextOf(Reply(c)) = "Error: API Error 404: not found"

\* C7: for a known tool, a 2xx response with an empty text ends in a success
\* envelope (not a failure) whose text is {} and parses as the empty object;
\* the empty text is not handed to JSON.parse (which would throw).
C7_EmptyBodySuccess ==
    \A c \in CallIds :
        (/\ Read(c)
         /\ call[c].name \in Registered
         /\ Success(response[c].status)
         /\ response[c].text = <<>>) =>
            LET chars == JSONStringifyChars(result[c].value, <<" ", " ">>, <<>>)
            IN  /\ ~IsFailure(Reply(c))
                /\ result[c].kind = "return"
                /\ TextOf(Reply(c)) = "{}"
                /\ TextOf(Reply(c)) = Join(chars)
                /\ JSONParse(chars).ok
                /\ JSONParse(chars).v = Obj(<<>>)

\* A 204 with no body has been answered with {}.
C7_Witness ==
    \E c \in CallIds :
        /\ Read(c)
        /\ call[c].name = "learningsuite_delete_member"
        /\ response[c].status = 204
        /\ response[c].text = <<>>
        /\ TextOf(Reply(c)) = "{}"
        /\ ~IsFailure(Reply(c))

\* C8: a 2xx response whose text is not empty and not JSON ends the call
\* with a failure envelope carrying the SyntaxError; it is not turned into a
\* success, the request is not sent again, and the server keeps serving.
C8_MalformedFails ==
    \A c \in CallIds :
        /\ (/\ pc[c] \notin {"idle", "fetching", "reading"}
            /\ response[c].read
            /\ Success(response[c].status)
            /\ response[c].text \in MalformedBodies) =>
                /\ pc[c] = "done"
                /\ phase = "serving"
                /\ result[c].kind = "throw"
                /\ result[c].error.name = "SyntaxError"
                /\ Len(replies[c]) = 1
                /\ IsFailure(Reply(c))
                /\ Len(sent[c]) = 1
        /\ Len(sent[c]) <= 1

\* A 200 whose text is one space has been answered with a failure.
C8_Witness ==
    \E c \in CallIds :
        /\ Read(c)
        /\ response[c].status = 200
        /\ response[c].text = <<" ">>
        /\ IsFailure(Reply(c))
        /\ TextOf(Reply(c)) = "Error: Unexpected end of JSON input"

\* The tools that read: those named get, list, find or check.
ReadTools ==
    {"learningsuite_check_auth", "learningsuite_list_members",
     "learningsuite_get_member", "learningsuite_get_member_by_email",
     "learningsuite_get_member_courses", "learningsuite_get_member_course_info",
     "learningsuite_get_member_bundles", "learningsuite_list_team_members",
     "learningsuite_get_team_member", "learningsuite_get_team_member_by_email",
     "learningsuite_list_groups", "learningsuite_find_groups_by_name",
     "learningsuite_get_group_courses", "learningsuite_list_published_courses",
     "learningsuite_get_course_modules", "learningsuite_get_course_modules_for_member",
     "learningsuite_get_course_members", "learningsuite_get_course_access_requests",
     "learningsuite_get_course_submissions", "learningsuite_get_module_sections",
     "learningsuite_get_module_lessons", "learningsuite_list_bundles",
     "learningsuite_get_bundle_members", "learningsuite_list_hubs",
     "learningsuite_list_hub_templates", "learningsuite_get_hub_template_variables",
     "learningsuite_list_community_areas", "learningsuite_list_community_forums",
     "learningsuite_list_community_posts", "learningsuite_list_community_badges",
     "learningsuite_list_popups", "learningsuite_get_popup",
     "learningsuite_list_roles", "learningsuite_list_webhook_subscriptions",
     "learningsuite_get_webhook_subscription", "learningsuite_get_webhook_sample_data"}

\* The keys of the query string of a fetch.
ParamKeys(f) == {f.params[i][1] : i \in 1..Len(f.params)}

\* x is a string with a ? in it.
HasQuestionMark(x) == x.t = "string" /\ \E j \in 1..Len(x.v) : x.v[j] = "?"

\* C9: for a read tool, an optional schema field that is absent from the
\* argument map is not a key of the request's query string; every key of the
\* query string has a defined value in the argument map (none is sent as
\* undefined); and when no value is defined, nothing is appended to the URL,
\* which then has no ? unless an argument brought one.
C9_QueryOmission ==
    \A c \in CallIds :
        (sent[c] # <<>> /\ call[c].name \in ReadTools) =>
            LET f == sent[c][1]
                d == RegisteredDescriptor(call[c].name)
                args == call[c].arguments
            IN  /\ \A k \in PropertyNames(d) \ Required(d) :
                        k \notin Keys(args) => k \notin ParamKeys(f)
                /\ \A k \in ParamKeys(f) : Get(args, k).t # "undefined"
                /\ f.params = <<>> => f.url = BASE_URL \o Join(f.path)
                /\ (/\ f.params = <<>>
                    /\ \A k \in Keys(args) : ~HasQuestionMark(Get(args, k))) =>
                        \A i \in 1..Len(f.path) : f.path[i] # "?"
                /\ (call[c].name = "learningsuite_list_members"
                        /\ args \in {Undefined, Obj(<<>>)}) =>
                        f.url = "https://api.learningsuite.io/api/v1/members"

\* learningsuite_get_member was called with a memberId and no includeGroups:
\* the URL has no query string.
C9_Witness ==
    \E c \in CallIds :
        /\ pc[c] = "fetching"
        /\ call[c].name = "learningsuite_get_member"
        /\ call[c].arguments = Obj(<< <<"memberId", Str(<<"m", "1">>)>> >>)
        /\ sent[c][1].params = <<>>
        /\ sent[c][1].url = "https://api.learningsuite.io/api/v1/members/m1"

\* C10: a request issued with method GET has no body, and every read tool
\* issues a GET without a body, whatever the argument map holds.
C10_NoBodyOnGet ==
    \A c \in CallIds :
        sent[c] # <<>> =>
            LET f == sent[c][1]
            IN  /\ f.options.method = "GET" => "body" \notin DOMAIN f.options
                /\ call[c].name \in ReadTools =>
                        f.options.method = "GET" /\ "body" \notin DOMAIN f.options

\* learningsuite_list_members was called with a field outside its schema:
\* the field is in the query string and the GET has no body.
C10_Witness ==
    \E c \in CallIds :
        /\ pc[c] = "fetching"
        /\ call[c].name = "learningsuite_list_members"
        /\ ExtraKey(1) \in Keys(call[c].arguments)
        /\ sent[c][1].options.method = "GET"
        /\ "body" \notin DOMAIN sent[c][1].options

\* The value of header h of the fetch f; undefined when f has no such header.
HeaderOf(f, h) ==
    LET hs == f.options.headers
    IN  IF \E i \in 1..Len(hs) : hs[i][1] = h
        THEN hs[CHOOSE i \in 1..Len(hs) : hs[i][1] = h][2]
        ELSE Undefined

\* C11: every HTTP request issued, after any sequence of tool calls, has
\* exactly the headers Content-Type: application/json and X-API-Key, the
\* latter equal to the key the client was constructed with; the stored key
\* stays the one given at construction.
C11_AuthHeaders ==
    /\ phase = "serving" => client.apiKey = env
    /\ \A c \in CallIds : \A i \in 1..Len(sent[c]) :
            /\ Len(sent[c][i].options.headers) = 2
            /\ HeaderOf(sent[c][i], "Content-Type") = "application/json"
            /\ HeaderOf(sent[c][i], "X-API-Key") = env

\* After an earlier call has failed, a GET is in flight with the key k1.
C11_Witness ==
    \E c \in CallIds :
        /\ failed
        /\ pc[c] = "fetching"
        /\ sent[c][1].options.method = "GET"
        /\ HeaderOf(sent[c][1], "X-API-Key") = Str(<<"k", "1">>)
        /\ HeaderOf(sent[c][1], "Content-Type") = "application/json"

\* C12: when LEARNINGSUITE_API_KEY is missing (unset or empty) at startup,
\* the process exits without serving: no ListTools reply, no call accepted,
\* no HTTP request, no envelope; whenever a request is being served the
\* client holds a key.
C12_NoServiceWithoutKey ==
    /\ ~Truthy(env) =>
            /\ phase \in {"boot", "exited"}
            /\ client.apiKey = Undefined
            /\ listed = <<>>
            /\ \A c \in CallIds :
                    pc[c] = "idle" /\ sent[c] = <<>> /\ replies[c] = <<>>
    /\ (listed # <<>> \/ \E c \in CallIds : pc[c] # "idle") =>
            phase = "serving" /\ Truthy(client.apiKey)

\* The process has exited because the key was not set.
C12_Witness ==
    /\ env = Undefined
    /\ phase = "exited"
    /\ \A c \in CallIds : pc[c] = "idle" /\ sent[c] = <<>>

\* C13: a call causes at most one HTTP request and returns exactly one
\* Result Envelope: none while the request is in flight, one when the call
\* has ended; a call that failed (non-2xx, network error, malformed body)
\* has sent its one request and sends no other.
C13_NoRetries ==
    \A c \in CallIds :
        /\ Len(sent[c]) <= 1
        /\ Len(replies[c]) <= 1
        /\ pc[c] = "idle" => sent[c] = <<>> /\ replies[c] = <<>>
        /\ pc[c] \in {"fetching", "reading"} => Len(sent[c]) = 1 /\ replies[c] = <<>>
        /\ pc[c] = "done" => Len(replies[c]) = 1
        /\ (pc[c] = "done" /\ call[c].name \in Registered /\ call[c].arguments.t = "object") =>
                Len(sent[c]) = 1
        /\ (pc[c] = "done" /\ result[c].kind = "throw") =>
                /\ IsFailure(Reply(c))
                /\ ~ENABLED FetchRejects(c)
                /\ \A status \in Statuses : ~ENABLED FetchResolves(c, status)

\* A call whose fetch was rejected has ended with one request sent and one
\* envelope returned.
C13_Witness ==
    \E c \in CallIds :
        /\ pc[c] = "done"
        /\ call[c].name = "learningsuite_create_member"
        /\ response[c].status = 0
        /\ result[c].error.message = "fetch failed"
        /\ Len(sent[c]) = 1
        /\ Len(replies[c]) = 1

\* C14: every ListTools reply is the whole catalog, in declaration order (64
\* descriptors with distinct names, from learningsuite_check_auth to
\* learningsuite_get_webhook_sample_data), whatever calls have ended or are
\* in flight; the registered catalog stays the one built at startup.
C14_ListToolsStable ==
    /\ phase = "serving" => tools = Catalog
    /\ listed # <<>> =>
            /\ listed = Catalog
            /\ Len(listed) = 64
            /\ listed[1].name = "learningsuite_check_auth"
            /\ listed[2].name = "learningsuite_list_members"
            /\ listed[32].name = "learningsuite_get_course_access_requests"
            /\ listed[64].name = "learningsuite_get_webhook_sample_data"
            /\ \A i, j \in 1..Len(listed) : listed[i].name = listed[j].name => i = j

\* After an earlier call has failed and while another call awaits its
\* response text, ListTools has been answered with the catalog.
C14_Witness ==
    /\ failed
    /\ listed = Catalog
    /\ \E c \in CallIds : pc[c] = "reading" /\ call[c].name = "learningsuite_check_auth"

\* The request of learningsuite_get_member for the argument map args: GET
\* /members/<m>, with the query includeGroups=<g> when g is defined and no
\* query otherwise.
IsGetMemberRequest(f, args) ==
    LET m == Get(args, "memberId")
        g == Get(args, "includeGroups")
    IN  /\ f.options.method = "GET"
        /\ "body" \notin DOMAIN f.options
        /\ Join(f.path) = "/members/" \o Tpl(m)
        /\ IF g.t = "undefined"
           THEN /\ f.params = <<>>
                /\ f.url = "https://api.learningsuite.io/api/v1/members/" \o Tpl(m)
           ELSE /\ f.params = << <<"includeGroups", ToStringChars(g)>> >>
                /\ f.url = "https://api.learningsuite.io/api/v1/members/" \o Tpl(m)
                            \o "?includeGroups=" \o Tpl(g)
        /\ (args = Obj(<< <<"memberId", Str(<<"m", "1">>)>>, <<"includeGroups", Bool(TRUE)>> >>)) =>
                f.url = "https://api.learningsuite.io/api/v1/members/m1?includeGroups=true"

\* The response text is a JSON object.
IsObjectText(text) == JSONParse(text).ok /\ JSONParse(text).v.t = "object"

C16_RemoveMemberFromCourses ==
    \A c \in CallIds :
        (/\ call[c].name = "learningsuite_remove_member_from_courses"
         /\ call[c].arguments.t = "object"
         /\ pc[c] # "idle") =>
            LET f == sent[c][1]
                m == Get(call[c].arguments, "memberId")
                cs == Get(call[c].arguments, "courseIds")
            IN  /\ Len(sent[c]) = 1
                /\ f.options.method = "DELETE"
                /\ Join(f.path) = "/members/" \o Tpl(m) \o "/courses"
                /\ f.params = <<>>
                /\ f.url = "https://api.learningsuite.io/api/v1/members/" \o Tpl(m) \o "/courses"
                /\ "body" \in DOMAIN f.options
                /\ f.options.body.t = "string"
                /\ JSONParse(f.options.body.v).ok
                /\ Keys(JSONParse(f.options.body.v).v) \subseteq {"courseIds"}
                /\ cs.t # "undefined" =>
                        JSONParse(f.options.body.v).v = Obj(<< <<"courseIds", cs>> >>)
                /\ cs = Arr(<<Str(<<"c", "1">>), Str(<<"c", "2">>)>>) =>
                        Join(f.options.body.v) = "{\"courseIds\":[\"c1\",\"c2\"]}"

\* The call {memberId: "m1", courseIds: ["c1", "c2"], extra1: "m1"} is in
\* flight as DELETE /members/m1/courses with the body {"courseIds":["c1","c2"]}.
C16_Witness ==
    \E c \in CallIds :
        /\ pc[c] = "fetching"
        /\ call[c].name = "learningsuite_remove_member_from_courses"
        /\ Keys(call[c].arguments) = {"memberId", "courseIds", ExtraKey(1)}
        /\ sent[c][1].options.method = "DELETE"
        /\ sent[c][1].url = "https://api.learningsuite.io/api/v1/members/m1/courses"
        /\ Join(sent[c][1].options.body.v) = "{\"courseIds\":[\"c1\",\"c2\"]}"

\* The argument map of call c lacks a required field of its tool's schema.
OmitsRequired(c) ==
    /\ call[c].name \in Registered
    /\ call[c].arguments.t = "object"
    /\ ~(Required(RegisteredDescriptor(call[c].name)) \subseteq Keys(call[c].arguments))

\* C17: for every known tool, a call whose argument map lacks required
\* fields still sends its HTTP request, a missing path field being written
\* as the text undefined; no error is thrown before the request is sent, and
\* the envelope is the one the remote answer (or the network failure) gives.
C17_NoLocalValidation ==
    \A c \in CallIds :
        (OmitsRequired(c) /\ pc[c] # "idle") =>
            /\ Len(sent[c]) = 1
            /\ (call[c].name = "learningsuite_delete_member") =>
                    /\ sent[c][1].options.method = "DELETE"
                    /\ sent[c][1].url = "https://api.learningsuite.io/api/v1/members/undefined"
            /\ (call[c].name = "learningsuite_get_member_course_info"
                    /\ call[c].arguments = Obj(<< <<"memberId", Str(<<"m", "1">>)>> >>)) =>
                    sent[c][1].url =
                        "https://api.learningsuite.io/api/v1/members/m1/course-info/undefined"
            /\ (pc[c] = "done" /\ ~response[c].read) =>
                    result[c] \in {Throw(TypeError("fetch failed")),
                                   Throw(TypeError("terminated"))}
            /\ Read(c) =>
                    /\ result[c] = requestOnResponse(response[c].status, response[c].text)
                    /\ Reply(c) = CallToolHandler(result[c]).envelope
                    /\ (response[c].status = 404 /\ response[c].text = NotFoundText) =>
                            TextOf(Reply(c)) = "Error: API Error 404: not found"
                    /\ (response[c].status = 200 /\ response[c].text = <<"{", "}">>) =>
                            ~IsFailure(Reply(c)) /\ TextOf(Reply(c)) = "{}"

\* learningsuite_delete_member was called with an empty argument map: the
\* request DELETE /members/undefined was sent and the remote 404 is reported.
C17_Witness ==
    \E c \in CallIds :
        /\ Read(c)
        /\ call[c] = [name |-> "learningsuite_delete_member", arguments |-> Obj(<<>>)]
        /\ sent[c][1].url = "https://api.learningsuite.io/api/v1/members/undefined"
        /\ response[c].status = 404
        /\ TextOf(Reply(c)) = "Error: API Error 404: not found"

\* What handleToolCall settles with for call c, computed from the call's own
\* name, arguments and HTTP outcome and from the key and catalog of startup.
ExpectedResult(c) ==
    LET r == handleToolCall(call[c].name, call[c].arguments)
    IN  IF r.kind = "throw" THEN Throw(r.error)
        ELSE IF response[c].status = 0 THEN Throw(TypeError("fetch failed"))
        ELSE IF ~response[c].read THEN Throw(TypeError("terminated"))
        ELSE requestOnResponse(response[c].status, response[c].text)

\* Call c is as its own inputs determine: the request sent, and once it has
\* ended, the result and the one envelope.
OwnOutcome(c) ==
    LET r == handleToolCall(call[c].name, call[c].arguments)
    IN  /\ sent[c] = IF r.kind = "fetch" THEN <<r.fetch>> ELSE <<>>
        /\ pc[c] = "done" =>
                /\ result[c] = ExpectedResult(c)
                /\ replies[c] = <<CallToolHandler(ExpectedResult(c)).envelope>>

\* Slot c holds nothing of an earlier call.
Pristine(c) ==
    /\ call[c] = NoCall
    /\ sent[c] = <<>>
    /\ response[c] = NoResponse
    /\ result[c] = NoResult
    /\ replies[c] = <<>>

\* C18: once a call has ended in a failure, the server still serves with the
\* key and the catalog of startup, an idle slot holds nothing of the failed
\* call, every later ListTools reply is the catalog, and every later call
\* sends the request and returns the envelope that its own name, arguments
\* and HTTP outcome determine.
C18_FailureChangesNothing ==
    failed =>
        /\ phase = "serving"
        /\ client = [apiKey |-> env]
        /\ tools = Catalog
        /\ listed \in {<<>>, Catalog}
        /\ \A c \in CallIds :
                /\ pc[c] \in {"idle", "fetching", "reading", "done"}
                /\ pc[c] = "idle" => Pristine(c)
                /\ pc[c] # "idle" => OwnOutcome(c)

\* After a failed call, learningsuite_list_members has been answered with
\* 200 and a JSON object and has returned a success envelope.
C18_Witness ==
    \E c \in CallIds :
        /\ failed
        /\ Read(c)
        /\ call[c].name = "learningsuite_list_members"
        /\ response[c] = [status |-> 200, text |-> ObjectText, read |-> TRUE]
        /\ result[c].kind = "return"
        /\ ~IsFailure(Reply(c))

\* C19: with two calls in flight and their responses arriving in any
\* order, each call has sent the request and returned the envelope that its
\* own name, arguments and HTTP outcome determine, an idle slot holds
\* nothing of any call, and a call can always take its next step whatever
\* the other call is doing.
C19_CallsIndependent ==
    \A c \in ConcurrentIds :
        /\ pc[c] \in {"idle", "fetching", "reading", "done"}
        /\ pc[c] = "idle" => Pristine(c)
        /\ pc[c] # "idle" => OwnOutcome(c) /\ Len(replies[c]) <= 1
        /\ (phase = "serving" /\ pc[c] = "idle") =>
                \A r \in ConcurrentCalls : ENABLED CallTool(c, r.name, r.arguments)
        /\ pc[c] = "fetching" =>
                /\ ENABLED FetchRejects(c)
                /\ \A status \in Statuses : ENABLED FetchResolves(c, status)
        /\ pc[c] = "reading" =>
                /\ ENABLED TextRejects(c)
                /\ ENABLED TextResolves(c, <<>>)
        /\ pc[c] = "done" => ENABLED Respond(c)

\* Two calls have ended, one with the payload of its 200 response and the
\* other with the error of its 404 response.
C19_Witness ==
    /\ pc = [c \in ConcurrentIds |-> "done"]
    /\ call[1].name = "learningsuite_get_member"
    /\ response[1] = [status |-> 200, text |-> ObjectText, read |-> TRUE]
    /\ TextOf(Reply(1)) = "{\n  \"id\": \"m1\",\n  \"ok\": [\n    true,\n    0\n  ]\n}"
    /\ call[2].name = "learningsuite_delete_member"
    /\ response[2] = [status |-> 404, text |-> NotFoundText, read |-> TRUE]
    /\ TextOf(Reply(2)) = "Error: API Error 404: not found"

\* The read tools with a path field and optional query filters, and the
\* field that becomes the path segment.
PathField(name) ==
    CASE name = "learningsuite_get_member_courses" -> "memberId"
      [] name = "learningsuite_get_course_members" -> "courseId"
      [] name = "learningsuite_get_course_access_requests" -> "courseId"
      [] name = "learningsuite_get_course_submissions" -> "courseId"
      [] name = "learningsuite_get_bundle_members" -> "bundleId"
      [] OTHER -> ""

\* C20: for the five read tools with a path field and optional filters, the
\* field that becomes the path segment is not a key of the query string,
\* which holds only optional filter fields of the tool's schema.
C20_PathFieldNotInQuery ==
    \A c \in CallIds :
        (PathField(call[c].name) # "" /\ sent[c] # <<>>) =>
            LET d == RegisteredDescriptor(call[c].name)
            IN  /\ PathField(call[c].name) \notin ParamKeys(sent[c][1])
                /\ ParamKeys(sent[c][1]) \subseteq PropertyNames(d) \ Required(d)

\* learningsuite_get_member_courses {memberId: "m1"} is in flight with the
\* member id both in the path and in the query string.
C20_Witness ==
    \E c \in CallIds :
        /\ pc[c] = "fetching"
        /\ call[c] = [name |-> "learningsuite_get_member_courses",
                      arguments |-> Obj(<< <<"memberId", Str(<<"m", "1">>)>> >>)]
        /\ sent[c][1].url =
                "https://api.learningsuite.io/api/v1/members/m1/courses?memberId=m1"

\* The mutating tools with path fields and a request body, and the fields
\* that become path segments.
BodyPathFields(name) ==
    CASE name = "learningsuite_add_member_to_courses" -> {"memberId"}
      [] name = "learningsuite_add_member_to_bundles" -> {"memberId"}
      [] name = "learningsuite_create_lesson" -> {"courseId", "sectionId"}
      [] name = "learningsuite_add_hub_accesses" -> {"hubId"}
      [] name = "learningsuite_remove_hub_accesses" -> {"hubId"}
      [] name = "learningsuite_comment_on_post" -> {"postId"}
      [] OTHER -> {}

\* The JSON body of the fetch f, parsed; undefined when f has no body.
BodyOf(f) ==
    IF "body" \in DOMAIN f.options THEN JSONParse(f.options.body.v).v ELSE Undefined

\* C21: for the six mutating tools with path fields and a request body, no
\* path field is a key of the JSON body: the body holds only the fields that
\* remain after the path fields are taken out.
C21_PathFieldNotInBody ==
    \A c \in CallIds :
        (BodyPathFields(call[c].name) # {} /\ sent[c] # <<>>) =>
            /\ "body" \in DOMAIN sent[c][1].options
            /\ Keys(BodyOf(sent[c][1])) \cap BodyPathFields(call[c].name) = {}
            /\ Keys(BodyOf(sent[c][1])) =
                    Keys(call[c].arguments) \ BodyPathFields(call[c].name)

\* learningsuite_add_member_to_courses for member m1 is in flight as PUT
\* /members/m1/courses with memberId: "m1" in its JSON body.
C21_Witness ==
    \E c \in CallIds :
        /\ pc[c] = "fetching"
        /\ call[c].name = "learningsuite_add_member_to_courses"
        /\ Keys(call[c].arguments) = {"memberId", "courseIds"}
        /\ sent[c][1].options.method = "PUT"
        /\ sent[c][1].url = "https://api.learningsuite.io/api/v1/members/m1/courses"
        /\ Join(sent[c][1].options.body.v) = "{\"memberId\":\"m1\",\"courseIds\":[\"c1\",\"c2\"]}"

\* The positions of the registered catalog that hold the name.
PositionsOf(name) == {i \in 1..Len(tools) : tools[i].name = name}

\* C22: no two descriptors of the registered catalog, nor of a ListTools
\* reply, have the same name: there are as many names as descriptors, and
\* the name of a call resolves to at most one descriptor.
C22_NamesUnique ==
    /\ Cardinality(Registered) = Len(tools)
    /\ listed # <<>> =>
            Cardinality({listed[i].name : i \in 1..Len(listed)}) = Len(listed)
    /\ \A c \in CallIds :
            /\ Cardinality(PositionsOf(call[c].name)) <= 1
            /\ (pc[c] # "idle" /\ call[c].name \in Registered) =>
                    Cardinality(PositionsOf(call[c].name)) = 1

\* ListTools has returned 64 descriptors under 64 names.
C22_Witness ==
    /\ Len(listed) = 64
    /\ Cardinality({listed[i].name : i \in 1..Len(listed)}) = 64
    /\ \A c \in CallIds : pc[c] = "idle"
    /\ ~failed

\* The tools listed under Available Tools in README.md (lines 73-167).
ReadmeTools ==
    {"learningsuite_check_auth", "learningsuite_list_members",
     "learningsuite_create_member", "learningsuite_get_member",
     "learningsuite_get_member_by_email", "learningsuite_update_member",
     "learningsuite_delete_member", "learningsuite_get_member_courses",
     "learningsuite_add_member_to_courses", "learningsuite_remove_member_from_courses",
     "learningsuite_get_member_course_info", "learningsuite_get_member_bundles",
     "learningsuite_add_member_to_bundles", "learningsuite_remove_member_from_bundles",
     "learningsuite_list_team_members", "learningsuite_get_team_member",
     "learningsuite_get_team_member_by_email", "learningsuite_list_groups",
     "learningsuite_create_group", "learningsuite_find_groups_by_name",
     "learningsuite_delete_group", "learningsuite_get_group_courses",
     "learningsuite_add_courses_to_group", "learningsuite_remove_courses_from_group",
     "learningsuite_add_bundles_to_group", "learningsuite_add_members_to_groups",
     "learningsuite_remove_members_from_groups",
     "learningsuite_list_published_courses", "learningsuite_get_course_modules",
     "learningsuite_get_course_modules_for_member", "learningsuite_get_course_members",
     "learningsuite_get_course_access_requests",
     "learningsuite_get_course_submissions", "learningsuite_create_lesson",
     "learningsuite_get_module_sections", "learningsuite_get_module_lessons",
     "learningsuite_create_module_unlock_override", "learningsuite_list_bundles",
     "learningsuite_get_bundle_members", "learningsuite_list_hubs",
     "learningsuite_create_hub", "learningsuite_list_hub_templates",
     "learningsuite_get_hub_template_variables", "learningsuite_add_hub_accesses",
     "learningsuite_remove_hub_accesses", "learningsuite_list_community_areas",
     "learningsuite_list_community_forums", "learningsuite_list_community_posts",
     "learningsuite_comment_on_post", "learningsuite_list_community_badges",
     "learningsuite_assign_badges_to_user", "learningsuite_remove_badges_from_user",
     "learningsuite_list_popups", "learningsuite_get_popup",
     "learningsuite_trigger_popup", "learningsuite_remove_popup_trigger",
     "learningsuite_send_push_notifications", "learningsuite_list_roles",
     "learningsuite_list_webhook_subscriptions",
     "learningsuite_create_webhook_subscription",
     "learningsuite_get_webhook_subscription",
     "learningsuite_update_webhook_subscription",
     "learningsuite_delete_webhook_subscription",
     "learningsuite_get_webhook_sample_data"}

\* The case labels of the switch of handleToolCall (lines 1058-1227).
CaseLabels ==
    {"learningsuite_check_auth", "learningsuite_list_members",
     "learningsuite_create_member", "learningsuite_get_member",
     "learningsuite_get_member_by_email", "learningsuite_update_member",
     "learningsuite_delete_member", "learningsuite_get_member_courses",
     "learningsuite_add_member_to_courses", "learningsuite_remove_member_from_courses",
     "learningsuite_get_member_course_info", "learningsuite_get_member_bundles",
     "learningsuite_add_member_to_bundles", "learningsuite_remove_member_from_bundles",
     "learningsuite_list_team_members", "learningsuite_get_team_member",
     "learningsuite_get_team_member_by_email", "learningsuite_list_groups",
     "learningsuite_create_group", "learningsuite_find_groups_by_name",
     "learningsuite_delete_group", "learningsuite_get_group_courses",
     "learningsuite_add_courses_to_group", "learningsuite_remove_courses_from_group",
     "learningsuite_add_bundles_to_group", "learningsuite_add_members_to_groups",
     "learningsuite_remove_members_from_groups",
     "learningsuite_list_published_courses", "learningsuite_get_course_modules",
     "learningsuite_get_course_modules_for_member", "learningsuite_get_course_members",
     "learningsuite_get_course_access_requests",
     "learningsuite_get_course_submissions", "learningsuite_create_lesson",
     "learningsuite_get_module_sections", "learningsuite_get_module_lessons",
     "learningsuite_create_module_unlock_override", "learningsuite_list_bundles",
     "learningsuite_get_bundle_members", "learningsuite_list_hubs",
     "learningsuite_create_hub", "learningsuite_list_hub_templates",
     "learningsuite_get_hub_template_variables", "learningsuite_add_hub_accesses",
     "learningsuite_remove_hub_accesses", "learningsuite_list_community_areas",
     "learningsuite_list_community_forums", "learningsuite_list_community_posts",
     "learningsuite_comment_on_post", "learningsuite_list_community_badges",
     "learningsuite_assign_badges_to_user", "learningsuite_remove_badges_from_user",
     "learningsuite_list_popups", "learningsuite_get_popup",
     "learningsuite_trigger_popup", "learningsuite_remove_popup_trigger",
     "learningsuite_send_push_notifications", "learningsuite_list_roles",
     "learningsuite_list_webhook_subscriptions",
     "learningsuite_create_webhook_subscription",
     "learningsuite_get_webhook_subscription",
     "learningsuite_update_webhook_subscription",
     "learningsuite_delete_webhook_subscription",
     "learningsuite_get_webhook_sample_data"}

\* C23: a call that is not answered "Unknown tool" has a name of the
\* registered catalog; every case label of the dispatcher is a registered
\* name, and no other name is bound; the names ListTools returns are exactly
\* the tools the README lists.
C23_NoHiddenTools ==
    /\ phase = "serving" => Registered = ReadmeTools
    /\ listed # <<>> =>
            /\ {listed[i].name : i \in 1..Len(listed)} = ReadmeTools
            /\ \A name \in CaseLabels \cup ReadmeTools \cup UnknownNames :
                    handleToolCall(name, Obj(<<>>)) # UnknownTool(name) =>
                        name \in {listed[i].name : i \in 1..Len(listed)}
            /\ \A name \in CaseLabels :
                    handleToolCall(name, Obj(<<>>)) # UnknownTool(name)
    /\ \A c \in CallIds :
            (pc[c] = "done" /\ result[c] # Throw(Error("Unknown tool: " \o call[c].name))) =>
                call[c].name \in Registered /\ call[c].name \in ReadmeTools

\* A call of learningsuite_list_roles, which the README lists, has been
\* answered with the remote payload.
C23_Witness ==
    \E c \in CallIds :
        /\ pc[c] = "done"
        /\ call[c].name = "learningsuite_list_roles"
        /\ call[c].name \in ReadmeTools
        /\ result[c].kind = "return"
        /\ TextOf(Reply(c)) = "{}"

\* The value of key k in the query string of the fetch f.
ParamOf(f, k) == f.params[CHOOSE i \in 1..Len(f.params) : f.params[i][1] = k][2]

\* C24: for a read tool, an optional filter of the argument map is a key of
\* the query string exactly when its value is not undefined; false, 0 and the
\* empty string are sent as the texts false, 0 and an empty value; each key
\* is there once, with the text String() gives for its value.
C24_FalsyValuesSent ==
    \A c \in CallIds :
        (sent[c] # <<>> /\ call[c].name \in ReadTools) =>
            LET f == sent[c][1]
                d == RegisteredDescriptor(call[c].name)
                args == call[c].arguments
            IN  /\ Cardinality(ParamKeys(f)) = Len(f.params)
                /\ \A k \in PropertyNames(d) \ Required(d) :
                        k \in ParamKeys(f) <=> Get(args, k).t # "undefined"
                /\ \A k \in ParamKeys(f) :
                        /\ ParamOf(f, k) = ToStringChars(Get(args, k))
                        /\ Get(args, k) = Bool(FALSE) => ParamOf(f, k) = <<"f", "a", "l", "s", "e">>
                        /\ Get(args, k) = Num(0) => ParamOf(f, k) = <<"0">>
                        /\ Get(args, k) = Str(<<>>) => ParamOf(f, k) = <<>>
                /\ (call[c].name = "learningsuite_get_member"
                        /\ args = Obj(<< <<"memberId", Str(<<"m", "1">>)>>,
                                         <<"includeGroups", Bool(FALSE)>> >>)) =>
                        f.url = "https://api.learningsuite.io/api/v1/members/m1?includeGroups=false"

\* learningsuite_get_course_members is in flight with limit 0, offset 0 and
\* includeProgress false, all three in the query string.
C24_Witness ==
    \E c \in CallIds :
        /\ pc[c] = "fetching"
        /\ call[c].name = "learningsuite_get_course_members"
        /\ Get(call[c].arguments, "limit") = Num(0)
        /\ Get(call[c].arguments, "includeProgress") = Bool(FALSE)
        /\ sent[c][1].url =
            "https://api.learningsuite.io/api/v1/courses//members?courseId=&limit=0&offset=0&includeProgress=false"

\* The identifier field of the two update tools that destructure it.
IdentifierField(name) ==
    CASE name = "learningsuite_update_member" -> "memberId"
      [] name = "learningsuite_update_webhook_subscription" -> "subscriptionId"
      [] OTHER -> ""

\* The path of the two update tools up to the identifier.
UpdatePath(name) ==
    CASE name = "learningsuite_update_member" -> "/members/"
      [] name = "learningsuite_update_webhook_subscription" -> "/webhooks/subscription/"
      [] OTHER -> ""

\* C25: learningsuite_update_member and
\* learningsuite_update_webhook_subscription issue a PUT whose path ends in
\* the identifier field's value, without a query string, and whose JSON body
\* is the argument map without the identifier field: the other fields, in
\* their order and with their values, and not the identifier.
C25_UpdateBody ==
    \A c \in CallIds :
        (/\ IdentifierField(call[c].name) # ""
         /\ call[c].arguments.t = "object"
         /\ pc[c] # "idle") =>
            LET f == sent[c][1]
                id == IdentifierField(call[c].name)
                args == call[c].arguments
            IN  /\ Len(sent[c]) = 1
                /\ f.options.method = "PUT"
                /\ Join(f.path) = UpdatePath(call[c].name) \o Tpl(Get(args, id))
                /\ f.params = <<>>
                /\ f.url = BASE_URL \o Join(f.path)
                /\ "body" \in DOMAIN f.options
                /\ id \notin Keys(BodyOf(f))
                /\ Keys(BodyOf(f)) = Keys(args) \ {id}
                /\ BodyOf(f) = Obj(SelectSeq(args.v, LAMBDA p : p[1] # id))
                /\ \A k \in Keys(args) \ {id} : Get(BodyOf(f), k) = Get(args, k)

\* learningsuite_update_member {memberId: "m1", extra1: "m1"} is in flight
\* as PUT /members/m1 with the body {"extra1":"m1"}.
C25_Witness ==
    \E c \in CallIds :
        /\ pc[c] = "fetching"
        /\ call[c].name = "learningsuite_update_member"
        /\ Keys(call[c].arguments) = {"memberId", ExtraKey(1)}
        /\ sent[c][1].options.method = "PUT"
        /\ sent[c][1].url = "https://api.learningsuite.io/api/v1/members/m1"
        /\ Join(sent[c][1].options.body.v) = "{\"extra1\":\"m1\"}"

\* C26: provided its HTTP round trip ends, a call that is in flight
\* eventually has returned exactly one Result Envelope, whatever the other
\* call does.
C26_EventuallyCompletes ==
    \A c \in ConcurrentIds :
        (pc[c] \in {"fetching", "reading"}) ~> (pc[c] = "done" /\ Len(replies[c]) = 1)

\* The second call has returned its envelope while the first still waits for
\* its response.
C26_Witness ==
    /\ pc[1] = "fetching"
    /\ pc[2] = "done"
    /\ response[2].read
    /\ Len(replies[2]) = 1
    /\ replies[1] = <<>>

\* C27: a call of a registered tool without an arguments map is handled as
\* the same call with the empty map would be: the same HTTP request is
\* issued (or none, when the empty map issues none), and with the same HTTP
\* outcome the envelope is of the same kind.
C27_AbsentLikeEmpty ==
    \A c \in CallIds :
        (/\ pc[c] # "idle"
         /\ call[c].name \in Registered
         /\ call[c].arguments = Undefined) =>
            LET e == handleToolCall(call[c].name, Obj(<<>>))
            IN  /\ sent[c] = IF e.kind = "fetch" THEN <<e.fetch>> ELSE <<>>
                /\ (pc[c] = "done" /\ e.kind = "fetch" /\ response[c].read) =>
                        (IsFailure(Reply(c)) <=>
                            requestOnResponse(response[c].status,
                                              response[c].text).kind = "throw")

\* learningsuite_delete_member without an arguments map has failed with a
\* TypeError and no request, where the empty map sends DELETE
\* /members/undefined.
C27_Witness ==
    \E c \in CallIds :
        /\ pc[c] = "done"
        /\ call[c] = [name |-> "learningsuite_delete_member", arguments |-> Undefined]
        /\ sent[c] = <<>>
        /\ response[c] = NoResponse
        /\ IsFailure(Reply(c))
        /\ TextOf(Reply(c)) =
                "Error: Cannot read properties of undefined (reading 'memberId')"
        /\ handleToolCall("learningsuite_delete_member", Obj(<<>>)).fetch.url =
                "https://api.learningsuite.io/api/v1/members/undefined"

\* C28: a field of the argument map that the tool's inputSchema does not
\* declare reaches the remote API nowhere: the path is the one the declared
\* fields alone give, and every key of the query string and of the JSON body
\* is a declared field.
C28_OnlyDeclaredFields ==
    \A c \in CallIds :
        (sent[c] # <<>> /\ call[c].name \in Registered
            /\ call[c].arguments.t = "object") =>
            LET P == PropertyNames(RegisteredDescriptor(call[c].name))
                declared == Obj(SelectSeq(call[c].arguments.v, LAMBDA q : q[1] \in P))
            IN  /\ sent[c][1].path = handleToolCall(call[c].name, declared).fetch.path
                /\ ParamKeys(sent[c][1]) \subseteq P
                /\ Keys(BodyOf(sent[c][1])) \subseteq P

\* learningsuite_create_member is in flight with the undeclared field extra1
\* in its JSON body.
C28_Witness ==
    \E c \in CallIds :
        /\ pc[c] = "fetching"
        /\ call[c].name = "learningsuite_create_member"
        /\ ExtraKey(1) \notin PropertyNames(RegisteredDescriptor(call[c].name))
        /\ Get(call[c].arguments, ExtraKey(1)) = Str(<<"m", "1">>)
        /\ sent[c][1].options.method = "POST"
        /\ Get(BodyOf(sent[c][1]), ExtraKey(1)) = Str(<<"m", "1">>)

\* C29: a call whose name no registered descriptor has issues no HTTP
\* request and waits for none: it has ended within the CallTool step, with
\* the failure the dispatcher's default case threw and no response received.
C29_UnknownToolNoRequest ==
    \A c \in CallIds :
        (pc[c] # "idle" /\ call[c].name \notin Registered) =>
            /\ sent[c] = <<>>
            /\ response[c] = NoResponse
            /\ pc[c] = "done"
            /\ result[c] = Throw(Error("Unknown tool: " \o call[c].name))
            /\ IsFailure(Reply(c))

\* A call named after a client method that no tool is bound to, with a member
\* id, has failed without a request.
C29_Witness ==
    \E c \in CallIds :
        /\ pc[c] = "done"
        /\ call[c] = [name |-> "learningsuite_add_members_to_groups_summary",
                      arguments |-> Obj(<< <<"memberId", Str(<<"m", "1">>)>> >>)]
        /\ sent[c] = <<>>
        /\ response[c] = NoResponse
        /\ IsFailure(Reply(c))

\* The part of the path that the URL parser takes as the URL's path: the
\* pieces before the first ? or #.
UrlPath(path) ==
    IF \E i \in 1..Len(path) : path[i] \in {"?", "#"}
    THEN SubSeq(path, 1, (CHOOSE i \in 1..Len(path) :
                            /\ path[i] \in {"?", "#"}
                            /\ \A j \in 1..(i - 1) : path[j] \notin {"?", "#"}) - 1)
    ELSE path

\* What delimits the segments of a URL path (one without ? and #): the
\* template's pieces and every / that a value brought.
Segments(path) == SelectSeq(path, LAMBDA piece : piece = "/" \/ piece \notin FormSafe)

\* The argument map with m1 for every string.
Harmless(args) ==
    Obj([i \in 1..Len(args.v) |->
            <<args.v[i][1],
              IF args.v[i][2].t = "string" THEN Str(<<"m", "1">>) ELSE args.v[i][2]>>])

\* C30: whatever string a path field holds, the URL addresses the endpoint
\* of the template: its path has the segments it has for the value m1, and
\* no part of the path is read as query or fragment, so that the query
\* string holds the binding's parameters only.
C30_PathFieldKeepsEndpoint ==
    \A c \in CallIds :
        (sent[c] # <<>> /\ call[c].name \in Registered
            /\ call[c].arguments.t = "object") =>
            LET f == sent[c][1]
                g == handleToolCall(call[c].name, Harmless(call[c].arguments)).fetch
            IN  /\ UrlPath(f.path) = f.path
                /\ Segments(UrlPath(f.path)) = Segments(g.path)

\* learningsuite_get_member with the member id a/b?c# is in flight: the URL
\* addresses /members/a/b with the query c.
C30_Witness ==
    \E c \in CallIds :
        /\ pc[c] = "fetching"
        /\ call[c] = [name |-> "learningsuite_get_member",
                      arguments |-> Obj(<< <<"memberId",
                                             Str(<<"a", "/", "b", "?", "c", "#">>)>> >>)]
        /\ sent[c][1].url = "https://api.learningsuite.io/api/v1/members/a/b?c#"
        /\ Join(UrlPath(sent[c][1].path)) = "/members/a/b"
        /\ Len(Segments(UrlPath(sent[c][1].path))) = 2
        /\ Len(Segments(<<"/members/", "m", "1">>)) = 1

=============================================================================
